---- MODULE Spec2Model ----
(***************************************************************************)
(* Sigilborn summoning (breeding) core: eligibility, cost, cooldown,       *)
(* offspring synthesis and the parent-side effects, as implemented in      *)
(* src/src/game/summoning.ts and the genetics helpers of                   *)
(* src/unnamed/part_000.                                                   *)
(*                                                                         *)
(* Time is in milliseconds; the run starts at StartTime, after the uses    *)
(* the generation-0 profiles made before it (rootUsed).  An                *)
(* ISO timestamp string is modelled as the pair <<day, ms of day>>; null   *)
(* is the empty tuple.  A template string is the tuple of its parts.       *)
(***************************************************************************)
EXTENDS Integers, Sequences, FiniteSets, TLC

VARIABLES sigils, records, now, elig, req, rootUsed, call

vars == <<sigils, records, now, elig, req, rootUsed, call>>

-----------------------------------------------------------------------------
(* Bounds of the model *)

MaxSigils == 4

MaxCalls == 3

MaxHours == 44

RootNames == <<"Ash", "Bram">>

(* Summons each root has already used when the run starts: Ash none, Bram *)
(* none or all but one.                                                   *)
RootUsedChoices == <<{0}, {0, 9}>>

RootClasses == <<"ember", "veil">>

RootRarities == <<"common", "rare">>

RootSeeds == <<<<0, 99999, 50000, 1000, 76000, 95000, 30000>>,
               <<60000, 1500, 94000, 20000, 80000>>>>

(* Seeds of the summons made in the population *)
PopulationSeeds == {<<40000, 90000, 1000, 10000, 97000, 76000, 3000>>}

(* Seeds of the calls made in the synthesis runs *)
Seeds == {<<0>>,
          <<50000>>,
          <<80000, 99999, 30000, 5000, 1000, 60000, 96000>>,
          <<95000, 76000, 99999, 40000>>}

SynthClasses == <<{"ember", "hollow"}, {"veil", "thorn"}>>

SynthRarities == <<{"common", "mythic"}, {"rare"}>>

MaxBrood == 1

StatClasses == {"ember", "hollow"}

StatSeeds == {<<50000>>, <<95000, 76000, 99999, 40000>>}

MaxLevelUps == 4

(* Roll values around every threshold of selectGene and of               *)
(* rollOffspringRarity (for tier sums 0 and 8), in units of 1 / RollScale *)
RollPoints == {0, 1, 50000, 74999, 75000, 75001, 93749, 93750, 93751, 99999,
               99, 100, 101, 899, 900, 901, 3999, 4000, 4001, 19999, 20000, 20001,
               219, 220, 221, 1499, 1500, 5199, 5200, 21799, 21800, 24999, 25000}

(* Ways a profile handed to executeSummon can break the registry's     *)
(* invariants                                                          *)
Faults == {"none", "rarity", "classGene", "professionGene", "missingSlot"}

QuestSeeds == {<<0>>, <<50000>>}

BonusSeeds == Seeds \cup {<<99999>>, <<12500, 99999, 37500>>}

(* The optional chosen stat and the seed of a levelUp call *)
LevelOptions == <<[chosen |-> "", rnd |-> <<80000, 99999, 30000, 5000, 1000, 60000, 96000>>],
                  [chosen |-> "vit", rnd |-> <<50000>>]>>

OffspringNames == {"Kit"}

Owners == {"0xowner"}

Requests == {1, 2}

-----------------------------------------------------------------------------
(* Summoning constants *)

BASE_COST == 2000

COST_PER_SUMMON == 1000

COST_PER_GENERATION == 500

GEN0_BASE_COOLDOWN_HOURS == 4

GEN0_COOLDOWN_INCREMENT_HOURS == 4

GEN0_MAX_SUMMONS == 10

MsPerHour == 60 * 60 * 1000

MsPerDay == 24 * MsPerHour

StartTime == 2 * MsPerDay

MaxTime == StartTime + MaxHours * MsPerHour

Null == <<>>

(* Math.max returning its first argument *)
Max_First(a, b) == a

Max(a, b) == IF a >= b THEN a ELSE b

(* Math.min returning its first argument *)
Min_First(a, b) == a

Min(a, b) == IF a <= b THEN a ELSE b

-----------------------------------------------------------------------------
(* Date <-> ISO string *)

ToISOString(ms) == <<ms \div MsPerDay, ms % MsPerDay>>

DateParse(iso) == iso[1] * MsPerDay + iso[2]

-----------------------------------------------------------------------------
(* Trait registry (classes.ts).  Growth rates are in hundredths, rarity     *)
(* chances in thousandths.                                                  *)

STAT_KEYS == <<"str", "dex", "agi", "vit", "end", "int", "wis", "lck">>

Stats(s, d, a, v, e, i, w, l) ==
    [str |-> s, dex |-> d, agi |-> a, vit |-> v, end |-> e, int |-> i, wis |-> w, lck |-> l]

CLASS_DEFINITIONS ==
    [ember |->
        [profession |-> "mining",
         baseStats |-> Stats(12, 7, 8, 9, 11, 5, 4, 6),
         primaryGrowth |-> Stats(75, 20, 30, 35, 70, 10, 10, 20),
         secondaryGrowth |-> Stats(30, 10, 15, 20, 30, 5, 5, 10)],
     thorn |->
        [profession |-> "gardening",
         baseStats |-> Stats(5, 6, 5, 12, 9, 8, 11, 6),
         primaryGrowth |-> Stats(10, 15, 10, 75, 35, 30, 70, 20),
         secondaryGrowth |-> Stats(5, 10, 5, 30, 20, 15, 30, 10)],
     veil |->
        [profession |-> "foraging",
         baseStats |-> Stats(4, 7, 6, 7, 5, 13, 12, 8),
         primaryGrowth |-> Stats(5, 20, 15, 20, 10, 80, 70, 30),
         secondaryGrowth |-> Stats(5, 10, 10, 10, 5, 35, 30, 15)],
     tidecaller |->
        [profession |-> "fishing",
         baseStats |-> Stats(6, 8, 11, 7, 6, 8, 7, 12),
         primaryGrowth |-> Stats(15, 30, 70, 20, 15, 25, 20, 75),
         secondaryGrowth |-> Stats(10, 15, 30, 10, 10, 15, 10, 30)],
     sparkwright |->
        [profession |-> "mining",
         baseStats |-> Stats(7, 11, 6, 6, 7, 13, 7, 8),
         primaryGrowth |-> Stats(20, 70, 15, 15, 20, 75, 20, 30),
         secondaryGrowth |-> Stats(10, 30, 10, 10, 10, 35, 10, 15)],
     hollow |->
        [profession |-> "fishing",
         baseStats |-> Stats(10, 8, 12, 4, 5, 9, 6, 11),
         primaryGrowth |-> Stats(65, 25, 75, 5, 10, 30, 15, 45),
         secondaryGrowth |-> Stats(25, 15, 30, 5, 5, 15, 10, 20)]]

Bonus(count, amount, random) == [count |-> count, amount |-> amount, random |-> random]

RARITY_DEFINITIONS ==
    [common |-> [chance |-> 750, statBonuses |-> <<>>],
     uncommon |-> [chance |-> 200, statBonuses |-> <<Bonus(2, 1, FALSE)>>],
     rare |-> [chance |-> 40,
               statBonuses |-> <<Bonus(3, 1, FALSE), Bonus(1, 1, TRUE)>>],
     legendary |-> [chance |-> 9,
                    statBonuses |-> <<Bonus(3, 1, FALSE), Bonus(2, 1, FALSE),
                                      Bonus(1, 2, FALSE)>>],
     mythic |-> [chance |-> 1,
                 statBonuses |-> <<Bonus(3, 2, FALSE), Bonus(3, 1, FALSE),
                                   Bonus(1, 1, FALSE)>>]]

RARITY_TIERS == <<"common", "uncommon", "rare", "legendary", "mythic">>

-----------------------------------------------------------------------------
(* Math.random().  A draw is an integer r in 0 .. RollScale - 1 standing    *)
(* for the number r / RollScale.  The draws of one call come from a seed,   *)
(* a sequence read cyclically: every Math.random() call site of a function  *)
(* has its own position k and returns Draw(rnd, k); a site inside a loop    *)
(* has one position per iteration.                                          *)

RollScale == 100 * 1000

Draw(rnd, k) == rnd[((k - 1) % Len(rnd)) + 1]

(* Math.floor(roll * n) *)
FloorScaled(roll, n) == (roll * n) \div RollScale

(* roll < hundredths / 100 *)
Below(roll, hundredths) == roll * 100 < hundredths * RollScale

RemoveAt(seq, idx) == [j \in 1..(Len(seq) - 1) |-> IF j < idx THEN seq[j] ELSE seq[j + 1]]

IndexOf(seq, x) ==
    IF \E j \in 1..Len(seq) : seq[j] = x
    THEN (CHOOSE j \in 1..Len(seq) : seq[j] = x /\ \A i \in 1..(j - 1) : seq[i] # x) - 1
    ELSE -1

-----------------------------------------------------------------------------
(* Genetics (genetics.ts) *)

CLASSES == <<"ember", "thorn", "veil", "tidecaller", "sparkwright", "hollow">>

PROFESSIONS == <<"mining", "fishing", "foraging", "gardening">>

ACTIVE_ABILITIES ==
    <<"power_strike", "keen_eye", "swift_hands", "iron_will",
      "deep_focus", "lucky_find", "second_wind", "elemental_surge">>

PASSIVE_ABILITIES ==
    <<"sturdy", "nimble", "scholar", "harvester",
      "enduring", "fortunate", "resilient", "prodigy">>

STAT_NAMES == <<"str", "dex", "agi", "vit", "end", "int", "wis", "lck">>

(* Inheritance probabilities, in draws out of RollScale *)
DOMINANT_CHANCE == (75 * RollScale) \div 100

RECESSIVE_CHANCE == (1875 * RollScale) \div 10000

HIDDEN_CHANCE == (625 * RollScale) \div 10000

MUTATION_RATE == (2 * RollScale) \div 100

SlotNames == <<"class", "subclass", "profession", "activeAbility", "passiveAbility", "statBoost">>

SlotPool(slot) ==
    CASE slot = "class" -> CLASSES
      [] slot = "subclass" -> CLASSES
      [] slot = "profession" -> PROFESSIONS
      [] slot = "activeAbility" -> ACTIVE_ABILITIES
      [] slot = "passiveAbility" -> PASSIVE_ABILITIES
      [] slot = "statBoost" -> STAT_NAMES

Range(seq) == {seq[j] : j \in 1..Len(seq)}

randomFrom(arr, roll) == arr[FloorScaled(roll, Len(arr)) + 1]

Layers(d, r, h) == [dominant |-> d, recessive |-> r, hidden |-> h]

professionForClass(sigilClass) == CLASS_DEFINITIONS[sigilClass].profession

Filter(seq, x) == SelectSeq(seq, LAMBDA c : c # x)

(* The draws are taken in the order the object literal lists its values. *)
generateGen0Genes(sigilClass, rnd) ==
    LET otherClasses == Filter(CLASSES, sigilClass)
        d(k) == Draw(rnd, k)
    IN  [class |-> Layers(sigilClass, randomFrom(otherClasses, d(1)), randomFrom(CLASSES, d(2))),
         subclass |-> Layers(randomFrom(CLASSES, d(3)), randomFrom(CLASSES, d(4)),
                             randomFrom(CLASSES, d(5))),
         profession |-> Layers(professionForClass(sigilClass), randomFrom(PROFESSIONS, d(6)),
                               randomFrom(PROFESSIONS, d(7))),
         activeAbility |-> Layers(randomFrom(ACTIVE_ABILITIES, d(8)),
                                  randomFrom(ACTIVE_ABILITIES, d(9)),
                                  randomFrom(ACTIVE_ABILITIES, d(10))),
         passiveAbility |-> Layers(randomFrom(PASSIVE_ABILITIES, d(11)),
                                   randomFrom(PASSIVE_ABILITIES, d(12)),
                                   randomFrom(PASSIVE_ABILITIES, d(13))),
         statBoost |-> Layers(randomFrom(STAT_NAMES, d(14)), randomFrom(STAT_NAMES, d(15)),
                              randomFrom(STAT_NAMES, d(16)))]

(* selectGene comparing the second threshold without the dominant share *)
selectGene_NotCumulative(layers, roll) ==
    IF roll < DOMINANT_CHANCE THEN layers.dominant
    ELSE IF roll < RECESSIVE_CHANCE THEN layers.recessive
    ELSE layers.hidden

selectGene(layers, roll) ==
    IF roll < DOMINANT_CHANCE THEN layers.dominant
    ELSE IF roll < DOMINANT_CHANCE + RECESSIVE_CHANCE THEN layers.recessive
    ELSE layers.hidden

(* Draws: k decides the mutation, k + 1 picks the replacement. *)
maybeMutate(gene, pool, rnd, k) ==
    IF Draw(rnd, k) < MUTATION_RATE
    THEN randomFrom(pool, Draw(rnd, k + 1))
    ELSE gene

SlotDraws == 9

(* inheritSlot taking the dominant layer from parent 2 and the recessive  *)
(* layer from parent 1                                                    *)
inheritSlot_ParentsSwapped(p1, p2, pool, rnd, k) ==
    LET fromP1 == selectGene(p1, Draw(rnd, k))
        fromP2 == selectGene(p2, Draw(rnd, k + 1))
        hidden == randomFrom(pool, Draw(rnd, k + 2))
    IN  Layers(maybeMutate(fromP2, pool, rnd, k + 3),
               maybeMutate(fromP1, pool, rnd, k + 5),
               maybeMutate(hidden, pool, rnd, k + 7))

(* Draws: k, k + 1 select from the parents, k + 2 picks the hidden value, *)
(* k + 3 .. k + 8 are those of the three maybeMutate calls.               *)
inheritSlot(p1, p2, pool, rnd, k) ==
    LET fromP1 == selectGene(p1, Draw(rnd, k))
        fromP2 == selectGene(p2, Draw(rnd, k + 1))
        hidden == randomFrom(pool, Draw(rnd, k + 2))
    IN  Layers(maybeMutate(fromP1, pool, rnd, k + 3),
               maybeMutate(fromP2, pool, rnd, k + 5),
               maybeMutate(hidden, pool, rnd, k + 7))

GenomeDraws == 6 * SlotDraws

inheritGenes(parent1, parent2, rnd, k) ==
    [class |-> inheritSlot(parent1.class, parent2.class, CLASSES, rnd, k),
     subclass |-> inheritSlot(parent1.subclass, parent2.subclass, CLASSES,
                              rnd, k + SlotDraws),
     profession |-> inheritSlot(parent1.profession, parent2.profession, PROFESSIONS,
                                rnd, k + 2 * SlotDraws),
     activeAbility |-> inheritSlot(parent1.activeAbility, parent2.activeAbility,
                                   ACTIVE_ABILITIES, rnd, k + 3 * SlotDraws),
     passiveAbility |-> inheritSlot(parent1.passiveAbility, parent2.passiveAbility,
                                    PASSIVE_ABILITIES, rnd, k + 4 * SlotDraws),
     statBoost |-> inheritSlot(parent1.statBoost, parent2.statBoost, STAT_NAMES,
                               rnd, k + 5 * SlotDraws)]

-----------------------------------------------------------------------------
(* Stat synthesis (classes.ts) *)

(* variance = Math.floor(Math.random() * 5) - 2; draws k .. k + 7 *)
generateBaseStats(sigilClass, rnd, k) ==
    LET base == CLASS_DEFINITIONS[sigilClass].baseStats
        pos(key) == IndexOf(STAT_KEYS, key)
    IN  [key \in DOMAIN base |->
            LET variance == FloorScaled(Draw(rnd, k + pos(key)), 5) - 2
            IN  Max(1, base[key] + variance)]

(* The stats one bonus pass picks from its i-th pick on, given the stats   *)
(* still available; the i-th pick uses draw k + i.                         *)
(* A pass that leaves the picked stat among the available ones *)
RECURSIVE PassPicks_KeepsPicked(_, _, _, _, _)
PassPicks_KeepsPicked(available, i, bonus, rnd, k) ==
    IF i >= bonus.count \/ Len(available) = 0
    THEN <<>>
    ELSE LET idx == FloorScaled(Draw(rnd, k + i), Len(available))
         IN  <<available[idx + 1]>>
                 \o PassPicks_KeepsPicked(available, i + 1, bonus, rnd, k)

RECURSIVE PassPicks(_, _, _, _, _)
PassPicks(available, i, bonus, rnd, k) ==
    IF i >= bonus.count \/ Len(available) = 0
    THEN <<>>
    ELSE LET idx == FloorScaled(Draw(rnd, k + i), Len(available))
         IN  <<available[idx + 1]>>
                 \o PassPicks(RemoveAt(available, idx + 1), i + 1, bonus, rnd, k)

(* The stats each pass of a rarity picks, pass by pass; every pass starts  *)
(* from all of STAT_KEYS; pass p uses the draws from k + 8 (p - 1) on.     *)
RarityPicks(rarity, rnd, k) ==
    LET statBonuses == RARITY_DEFINITIONS[rarity].statBonuses
    IN  [p \in 1..Len(statBonuses) |->
            PassPicks(STAT_KEYS, 0, statBonuses[p], rnd, k + Len(STAT_KEYS) * (p - 1))]

Occurrences(seq, x) == Cardinality({j \in 1..Len(seq) : seq[j] = x})

RECURSIVE SumSeq(_)
SumSeq(seq) == IF Len(seq) = 0 THEN 0 ELSE Head(seq) + SumSeq(Tail(seq))

applyRarityBonuses(stats, rarity, rnd, k) ==
    LET def == RARITY_DEFINITIONS[rarity]
        picks == RarityPicks(rarity, rnd, k)
    IN  [stat \in DOMAIN stats |->
            stats[stat]
              + SumSeq([p \in 1..Len(def.statBonuses) |->
                          Occurrences(picks[p], stat) * def.statBonuses[p].amount])]

(* rollStatGrowth taking a point away when the primary roll fails *)
rollStatGrowth_LosesOnMiss(currentStats, primaryGrowth, secondaryGrowth, rnd, k) ==
    LET pos(key) == IndexOf(STAT_KEYS, key)
    IN  [key \in DOMAIN currentStats |->
            currentStats[key]
              + (IF Below(Draw(rnd, k + 2 * pos(key)), primaryGrowth[key]) THEN 1 ELSE -1)
              + (IF Below(Draw(rnd, k + 2 * pos(key) + 1), secondaryGrowth[key])
                 THEN 1 ELSE 0)]

(* Draws k + 2i (primary) and k + 2i + 1 (secondary) for the i-th stat *)
rollStatGrowth(currentStats, primaryGrowth, secondaryGrowth, rnd, k) ==
    LET pos(key) == IndexOf(STAT_KEYS, key)
    IN  [key \in DOMAIN currentStats |->
            currentStats[key]
              + (IF Below(Draw(rnd, k + 2 * pos(key)), primaryGrowth[key]) THEN 1 ELSE 0)
              + (IF Below(Draw(rnd, k + 2 * pos(key) + 1), secondaryGrowth[key])
                 THEN 1 ELSE 0)]

calculateMaxHp(stats, level) == 50 + (stats.vit * 5) + (level * 10)

calculateMaxMp(stats, level) == 25 + (stats.int * 3) + (stats.wis * 2) + (level * 5)

calculateMaxStamina(level) ==
    LET bonus == level \div 2
    IN  Min(25 + bonus, 50)

(* Numbers too long for one integer are kept as sequences of four-digit *)
(* groups, lowest first.                                                *)
Group == 10000

(* f times the number with groups gs, plus carry *)
RECURSIVE Times(_, _, _)
Times(gs, f, carry) ==
    IF Len(gs) = 0
    THEN IF carry = 0 THEN <<>>
         ELSE <<carry % Group>> \o Times(<<>>, f, carry \div Group)
    ELSE LET v == f * Head(gs) + carry
         IN  <<v % Group>> \o Times(Tail(gs), f, v \div Group)

(* 100 times 11 to the n, four factors of 11 at a time (11^4 = 14641) *)
RECURSIVE HundredTimesPowEleven(_)
HundredTimesPowEleven(n) ==
    IF n = 0 THEN <<100>>
    ELSE IF n >= 4 THEN Times(HundredTimesPowEleven(n - 4), 11 * 11 * 11 * 11, 0)
    ELSE Times(HundredTimesPowEleven(n - 1), 11, 0)

RECURSIVE FromGroups(_)
FromGroups(gs) == IF Len(gs) = 0 THEN 0 ELSE Head(gs) + Group * FromGroups(Tail(gs))

RECURSIVE PowTen(_)
PowTen(n) == IF n = 0 THEN 1 ELSE 10 * PowTen(n - 1)

(* Math.floor(100 * Math.pow(1.1, level - 1)), as the integer part of    *)
(* 100 * 11^(level - 1) / 10^(level - 1): whole groups are dropped first, *)
(* then the remaining digits.  The exact quotient and the double-precision *)
(* product have the same integer part for every level up to MAX_LEVEL.     *)
xpForLevel(level) ==
    IF level <= 0 THEN 0
    ELSE LET n == level - 1
             gs == HundredTimesPowEleven(n)
             kept == SubSeq(gs, (n \div 4) + 1, Len(gs))
         IN  FromGroups(kept) \div PowTen(n % 4)

-----------------------------------------------------------------------------
(* Leveling (leveling.ts) *)

MAX_LEVEL == 100

(* canLevelUp without the level cap *)
canLevelUp_NoCap(sigil) ==
    IF sigil.xp < sigil.xpToNextLevel
    THEN [ok |-> FALSE,
          reason |-> <<"Need ", sigil.xpToNextLevel - sigil.xp, " more XP (",
                       sigil.xp, "/", sigil.xpToNextLevel, ")">>]
    ELSE [ok |-> TRUE]

canLevelUp(sigil) ==
    IF sigil.level >= MAX_LEVEL
    THEN [ok |-> FALSE, reason |-> <<"Already at max level (", MAX_LEVEL, ")">>]
    ELSE IF sigil.xp < sigil.xpToNextLevel
    THEN [ok |-> FALSE,
          reason |-> <<"Need ", sigil.xpToNextLevel - sigil.xp, " more XP (",
                       sigil.xp, "/", sigil.xpToNextLevel, ")">>]
    ELSE [ok |-> TRUE]

(* The while loop that redraws s2 until it differs from s1; its n-th      *)
(* iteration uses draw k + n.  A seed is read cyclically, so after         *)
(* Len(rnd) equal draws the loop never ends: found is FALSE.               *)
RECURSIVE RedrawUntilOther(_, _, _, _)
RedrawUntilOther(s1, rnd, k, n) ==
    LET s2 == STAT_KEYS[FloorScaled(Draw(rnd, k + n), Len(STAT_KEYS)) + 1]
    IN  IF s2 # s1 THEN [found |-> TRUE, stat |-> s2]
        ELSE IF n >= Len(rnd) THEN [found |-> FALSE, stat |-> s2]
        ELSE RedrawUntilOther(s1, rnd, k, n + 1)

(* sigil: the profile after the call (it is changed in place); result: the *)
(* LevelUpResult returned; returns: FALSE when the redraw loop never ends. *)
(* Draws: 1 .. 16 growth, 17 the blessing, 18 s1, 19 on s2 and its         *)
(* redraws, then those of the rarity bonus.                                *)
levelUp(sigil, chosenStatBonus, rnd) ==
    LET oldStats == sigil.stats
        classDef == CLASS_DEFINITIONS[sigil.class]
        subclassDef == CLASS_DEFINITIONS[sigil.subclass]
        grown == rollStatGrowth(sigil.stats, classDef.primaryGrowth,
                                subclassDef.secondaryGrowth, rnd, 1)
        chosen == IF chosenStatBonus # ""
                  THEN [grown EXCEPT ![chosenStatBonus] = @ + 1]
                  ELSE grown
        blessed == Below(Draw(rnd, 17), 50)
        s1 == STAT_KEYS[FloorScaled(Draw(rnd, 18), Len(STAT_KEYS)) + 1]
        other == RedrawUntilOther(s1, rnd, 19, 0)
        s2 == other.stat
        afterBlessing == IF blessed
                         THEN [[chosen EXCEPT ![s1] = @ + 1] EXCEPT ![s2] = @ + 1]
                         ELSE chosen
        k == 20 + Len(rnd)
        newLevel == sigil.level + 1
        rarityBonusApplied == newLevel % 5 = 0 /\ sigil.rarity # "common"
        newStats == IF rarityBonusApplied
                    THEN applyRarityBonuses(afterBlessing, sigil.rarity, rnd, k)
                    ELSE afterBlessing
        changed == {key \in DOMAIN oldStats : newStats[key] - oldStats[key] # 0}
        statChanges == [key \in changed |-> newStats[key] - oldStats[key]]
        newMaxHp == calculateMaxHp(newStats, newLevel)
        newMaxMp == calculateMaxMp(newStats, newLevel)
        newMaxStamina == calculateMaxStamina(newLevel)
    IN  [returns |-> ~blessed \/ other.found,
         sigil |-> [sigil EXCEPT
                      !.level = newLevel,
                      !.xp = @ - sigil.xpToNextLevel,
                      !.xpToNextLevel = xpForLevel(newLevel),
                      !.stats = newStats,
                      !.maxHp = newMaxHp,
                      !.hp = newMaxHp,
                      !.maxMp = newMaxMp,
                      !.mp = newMaxMp,
                      !.maxStamina = newMaxStamina,
                      !.stamina = IF newLevel % 2 = 0
                                  THEN Min(@ + 1, newMaxStamina) ELSE @],
         result |-> [newLevel |-> newLevel,
                     oldStats |-> oldStats,
                     newStats |-> newStats,
                     statChanges |-> statChanges,
                     rarityBonusApplied |-> rarityBonusApplied,
                     newMaxHp |-> newMaxHp,
                     newMaxMp |-> newMaxMp,
                     newMaxStamina |-> newMaxStamina]]

-----------------------------------------------------------------------------
(* Quests (quests.ts).  The profession skill level is in tenths. *)

STAMINA_COST == 5

QUEST_BASE_XP == [mining |-> 15, fishing |-> 12, foraging |-> 12, gardening |-> 10]

PROFESSION_SKILL_CAP == 100

PROFESSION_SKILL_GAIN_CHANCE == 30

PROFESSION_SKILL_GAIN_AMOUNT == 1

getQuestStats(profession) ==
    CASE profession = "mining" -> <<"str", "end">>
      [] profession = "fishing" -> <<"agi", "lck">>
      [] profession = "foraging" -> <<"dex", "int">>
      [] profession = "gardening" -> <<"wis", "vit">>

canQuest(sigil) ==
    IF sigil.stamina < STAMINA_COST
    THEN [ok |-> FALSE,
          reason |-> <<"Insufficient stamina (", sigil.stamina, "/", STAMINA_COST,
                       " needed)">>]
    ELSE IF sigil.hp <= 0
    THEN [ok |-> FALSE, reason |-> <<"Sigil is exhausted (0 HP)">>]
    ELSE [ok |-> TRUE]

(* The fields of the quest result that applyQuestResults reads (the reward *)
(* and the item drops are not part of the profile).                        *)
(* xpEarned is Math.floor(baseXp * (1 + ((p + s) / 200) * 0.5)).            *)
executeQuest(sigil, questType, rnd) ==
    LET stat == getQuestStats(questType)
        p == sigil.stats[stat[1]]
        s == sigil.stats[stat[2]]
        baseXp == QUEST_BASE_XP[questType]
        xpEarned == (baseXp * (400 + p + s)) \div 400
        skillIncrease == IF /\ sigil.professionSkillLevel < PROFESSION_SKILL_CAP
                            /\ Below(Draw(rnd, 1), PROFESSION_SKILL_GAIN_CHANCE)
                         THEN PROFESSION_SKILL_GAIN_AMOUNT
                         ELSE 0
    IN  [sigilId |-> sigil.id,
         questType |-> questType,
         xpEarned |-> xpEarned,
         skillIncrease |-> skillIncrease,
         staminaUsed |-> STAMINA_COST]

applyQuestResults(sigil, result) ==
    [sigil EXCEPT
        !.stamina = Max(0, @ - result.staminaUsed),
        !.xp = @ + result.xpEarned,
        !.professionSkillLevel = Min(PROFESSION_SKILL_CAP, @ + result.skillIncrease)]

-----------------------------------------------------------------------------
(* Relatedness (genetics) *)

Includes(pair, id) == \E k \in 1..Len(pair) : pair[k] = id

(* areTooRelated without the swapped-order sibling test *)
areTooRelated_SameOrderOnly(sigil1ParentIds, sigil2ParentIds, sigil1Id, sigil2Id) ==
    IF sigil1ParentIds # Null /\ Includes(sigil1ParentIds, sigil2Id) THEN TRUE
    ELSE IF sigil2ParentIds # Null /\ Includes(sigil2ParentIds, sigil1Id) THEN TRUE
    ELSE IF sigil1ParentIds # Null /\ sigil2ParentIds # Null
         THEN /\ sigil1ParentIds[1] = sigil2ParentIds[1]
              /\ sigil1ParentIds[2] = sigil2ParentIds[2]
         ELSE FALSE

areTooRelated(sigil1ParentIds, sigil2ParentIds, sigil1Id, sigil2Id) ==
    IF sigil1ParentIds # Null /\ Includes(sigil1ParentIds, sigil2Id) THEN TRUE
    ELSE IF sigil2ParentIds # Null /\ Includes(sigil2ParentIds, sigil1Id) THEN TRUE
    ELSE IF sigil1ParentIds # Null /\ sigil2ParentIds # Null
         THEN LET sameParents == /\ sigil1ParentIds[1] = sigil2ParentIds[1]
                                 /\ sigil1ParentIds[2] = sigil2ParentIds[2]
                  swappedParents == /\ sigil1ParentIds[1] = sigil2ParentIds[2]
                                    /\ sigil1ParentIds[2] = sigil2ParentIds[1]
              IN  sameParents \/ swappedParents
         ELSE FALSE

-----------------------------------------------------------------------------
(* Cost *)

(* parentCost that ignores the summons already used *)
parentCost_NoUseSurcharge(parent) ==
    BASE_COST + (COST_PER_GENERATION * parent.generation)

parentCost(parent) ==
    LET summonsUsed == parent.maxSummons - parent.summonsRemaining
    IN  BASE_COST + (COST_PER_SUMMON * summonsUsed)
                  + (COST_PER_GENERATION * parent.generation)

(* calculateSummonCost charging both parents *)
calculateSummonCost_Sum(parent1, parent2) ==
    parentCost(parent1) + parentCost(parent2)

calculateSummonCost(parent1, parent2) ==
    LET cost1 == parentCost(parent1)
        cost2 == parentCost(parent2)
    IN  Max(cost1, cost2)

-----------------------------------------------------------------------------
(* Cooldown *)

(* cooldownHours using the generation-0 schedule for every generation *)
cooldownHours_LinearOnly(parent) ==
    LET summonsUsed == parent.maxSummons - parent.summonsRemaining
    IN  GEN0_BASE_COOLDOWN_HOURS + (GEN0_COOLDOWN_INCREMENT_HOURS * summonsUsed)

cooldownHours(parent) ==
    LET summonsUsed == parent.maxSummons - parent.summonsRemaining
    IN  IF parent.generation = 0
        THEN GEN0_BASE_COOLDOWN_HOURS + (GEN0_COOLDOWN_INCREMENT_HOURS * summonsUsed)
        ELSE (24 + 8 * parent.generation) * (summonsUsed + 1)

cooldownEndTime(parent, t) ==
    LET hours == cooldownHours(parent)
    IN  ToISOString(t + hours * 60 * 60 * 1000)

-----------------------------------------------------------------------------
(* Eligibility *)

(* OnCooldown still blocking at the instant of expiry *)
OnCooldown_Inclusive(parent, t) ==
    parent.summonCooldownEnd # Null /\ DateParse(parent.summonCooldownEnd) >= t

OnCooldown(parent, t) ==
    parent.summonCooldownEnd # Null /\ DateParse(parent.summonCooldownEnd) > t

Eligible(parent1, parent2) ==
    [eligible |-> TRUE,
     cost |-> calculateSummonCost(parent1, parent2),
     cooldownHoursP1 |-> cooldownHours(parent1),
     cooldownHoursP2 |-> cooldownHours(parent2)]

(* checkSummonEligibility testing the summon count of the first parent only *)
checkSummonEligibility_SecondUncounted(parent1, parent2, t) ==
    IF parent1.id = parent2.id
    THEN [eligible |-> FALSE, reason |-> <<"Cannot summon with self">>]
    ELSE IF areTooRelated(parent1.parentIds, parent2.parentIds, parent1.id, parent2.id)
    THEN [eligible |-> FALSE,
          reason |-> <<"Parents are too closely related (siblings or parent-child)">>]
    ELSE IF parent1.summonsRemaining <= 0
    THEN [eligible |-> FALSE, reason |-> <<parent1.name, " has no summons remaining">>]
    ELSE IF OnCooldown(parent1, t)
    THEN [eligible |-> FALSE,
          reason |-> <<parent1.name, " is on cooldown until ", parent1.summonCooldownEnd>>]
    ELSE IF OnCooldown(parent2, t)
    THEN [eligible |-> FALSE,
          reason |-> <<parent2.name, " is on cooldown until ", parent2.summonCooldownEnd>>]
    ELSE Eligible(parent1, parent2)

(* checkSummonEligibility letting a parent with exactly zero summons pass *)
checkSummonEligibility_ZeroPasses(parent1, parent2, t) ==
    IF parent1.id = parent2.id
    THEN [eligible |-> FALSE, reason |-> <<"Cannot summon with self">>]
    ELSE IF areTooRelated(parent1.parentIds, parent2.parentIds, parent1.id, parent2.id)
    THEN [eligible |-> FALSE,
          reason |-> <<"Parents are too closely related (siblings or parent-child)">>]
    ELSE IF parent1.summonsRemaining < 0
    THEN [eligible |-> FALSE, reason |-> <<parent1.name, " has no summons remaining">>]
    ELSE IF parent2.summonsRemaining < 0
    THEN [eligible |-> FALSE, reason |-> <<parent2.name, " has no summons remaining">>]
    ELSE IF OnCooldown(parent1, t)
    THEN [eligible |-> FALSE,
          reason |-> <<parent1.name, " is on cooldown until ", parent1.summonCooldownEnd>>]
    ELSE IF OnCooldown(parent2, t)
    THEN [eligible |-> FALSE,
          reason |-> <<parent2.name, " is on cooldown until ", parent2.summonCooldownEnd>>]
    ELSE Eligible(parent1, parent2)

(* checkSummonEligibility testing the summon count before relatedness *)
checkSummonEligibility_CountFirst(parent1, parent2, t) ==
    IF parent1.id = parent2.id
    THEN [eligible |-> FALSE, reason |-> <<"Cannot summon with self">>]
    ELSE IF parent1.summonsRemaining <= 0
    THEN [eligible |-> FALSE, reason |-> <<parent1.name, " has no summons remaining">>]
    ELSE IF parent2.summonsRemaining <= 0
    THEN [eligible |-> FALSE, reason |-> <<parent2.name, " has no summons remaining">>]
    ELSE IF areTooRelated(parent1.parentIds, parent2.parentIds, parent1.id, parent2.id)
    THEN [eligible |-> FALSE,
          reason |-> <<"Parents are too closely related (siblings or parent-child)">>]
    ELSE IF OnCooldown(parent1, t)
    THEN [eligible |-> FALSE,
          reason |-> <<parent1.name, " is on cooldown until ", parent1.summonCooldownEnd>>]
    ELSE IF OnCooldown(parent2, t)
    THEN [eligible |-> FALSE,
          reason |-> <<parent2.name, " is on cooldown until ", parent2.summonCooldownEnd>>]
    ELSE Eligible(parent1, parent2)

(* checkSummonEligibility giving no reason for a self pair *)
checkSummonEligibility_SilentSelf(parent1, parent2, t) ==
    IF parent1.id = parent2.id
    THEN [eligible |-> FALSE]
    ELSE IF areTooRelated(parent1.parentIds, parent2.parentIds, parent1.id, parent2.id)
    THEN [eligible |-> FALSE,
          reason |-> <<"Parents are too closely related (siblings or parent-child)">>]
    ELSE IF parent1.summonsRemaining <= 0
    THEN [eligible |-> FALSE, reason |-> <<parent1.name, " has no summons remaining">>]
    ELSE IF parent2.summonsRemaining <= 0
    THEN [eligible |-> FALSE, reason |-> <<parent2.name, " has no summons remaining">>]
    ELSE IF OnCooldown(parent1, t)
    THEN [eligible |-> FALSE,
          reason |-> <<parent1.name, " is on cooldown until ", parent1.summonCooldownEnd>>]
    ELSE IF OnCooldown(parent2, t)
    THEN [eligible |-> FALSE,
          reason |-> <<parent2.name, " is on cooldown until ", parent2.summonCooldownEnd>>]
    ELSE Eligible(parent1, parent2)

checkSummonEligibility(parent1, parent2, t) ==
    IF parent1.id = parent2.id
    THEN [eligible |-> FALSE, reason |-> <<"Cannot summon with self">>]
    ELSE IF areTooRelated(parent1.parentIds, parent2.parentIds, parent1.id, parent2.id)
    THEN [eligible |-> FALSE,
          reason |-> <<"Parents are too closely related (siblings or parent-child)">>]
    ELSE IF parent1.summonsRemaining <= 0
    THEN [eligible |-> FALSE, reason |-> <<parent1.name, " has no summons remaining">>]
    ELSE IF parent2.summonsRemaining <= 0
    THEN [eligible |-> FALSE, reason |-> <<parent2.name, " has no summons remaining">>]
    ELSE IF OnCooldown(parent1, t)
    THEN [eligible |-> FALSE,
          reason |-> <<parent1.name, " is on cooldown until ", parent1.summonCooldownEnd>>]
    ELSE IF OnCooldown(parent2, t)
    THEN [eligible |-> FALSE,
          reason |-> <<parent2.name, " is on cooldown until ", parent2.summonCooldownEnd>>]
    ELSE Eligible(parent1, parent2)

-----------------------------------------------------------------------------
(* Summoning execution *)

(* rollOffspringRarity lowering the thresholds with the parents' tiers *)
rollOffspringRarity_PenalisesTiers(p1Rarity, p2Rarity, roll) ==
    LET p1Tier == IndexOf(RARITY_TIERS, p1Rarity)
        p2Tier == IndexOf(RARITY_TIERS, p2Rarity)
        tierSum == p1Tier + p2Tier
        millionths == roll * (1000000 \div RollScale)
    IN  IF millionths < 1000 - 150 * tierSum THEN "mythic"
        ELSE IF millionths < 9000 - 750 * tierSum THEN "legendary"
        ELSE IF millionths < 40000 - 1500 * tierSum THEN "rare"
        ELSE IF millionths < 200000 - 2250 * tierSum THEN "uncommon"
        ELSE "common"

(* Thresholds and rolls are compared in millionths. *)
rollOffspringRarity(p1Rarity, p2Rarity, roll) ==
    LET p1Tier == IndexOf(RARITY_TIERS, p1Rarity)
        p2Tier == IndexOf(RARITY_TIERS, p2Rarity)
        tierSum == p1Tier + p2Tier
        millionths == roll * (1000000 \div RollScale)
    IN  IF millionths < 1000 + 150 * tierSum THEN "mythic"
        ELSE IF millionths < 9000 + 750 * tierSum THEN "legendary"
        ELSE IF millionths < 40000 + 1500 * tierSum THEN "rare"
        ELSE IF millionths < 200000 + 2250 * tierSum THEN "uncommon"
        ELSE "common"

(* Whether executeSummon throws: selectGene reads `.dominant` of a slot   *)
(* a parent's genome lacks, generateBaseStats reads `.baseStats` of the   *)
(* definition of a class the registry lacks, and the offspring literal    *)
(* reads `.secondaryGrowth` of the definition of the subclass (TypeError  *)
(* on undefined). Nothing else in the call can throw.                     *)
executeSummonThrows(parent1, parent2, rnd) ==
    LET complete(genome) == \A slot \in Range(SlotNames) : slot \in DOMAIN genome
    IN  IF ~(complete(parent1.genes) /\ complete(parent2.genes))
        THEN TRUE
        ELSE LET genes == inheritGenes(parent1.genes, parent2.genes, rnd, 1)
             IN  \/ genes.class.dominant \notin DOMAIN CLASS_DEFINITIONS
                 \/ genes.subclass.dominant \notin DOMAIN CLASS_DEFINITIONS

(* executeSummon taking the subclass from the class slot *)
executeSummon_NoHybrid(parent1, parent2, offspringName, owner, offspringId, recordId, rnd) ==
    LET cost == calculateSummonCost(parent1, parent2)
        generation == Max(parent1.generation, parent2.generation) + 1
        genes == inheritGenes(parent1.genes, parent2.genes, rnd, 1)
        sigilClass == genes.class.dominant
        subclass == genes.class.dominant
        rarity == rollOffspringRarity(parent1.rarity, parent2.rarity,
                                      Draw(rnd, GenomeDraws + 1))
        base == generateBaseStats(sigilClass, rnd, GenomeDraws + 2)
        boostedStat == genes.statBoost.dominant
        boosted == [base EXCEPT ![boostedStat] = @ + 2]
        stats == IF rarity # "common"
                 THEN applyRarityBonuses(boosted, rarity, rnd,
                                         GenomeDraws + 2 + Len(STAT_KEYS))
                 ELSE boosted
        weakerParentSummons == Min(parent1.summonsRemaining, parent2.summonsRemaining)
        maxSummons == Max(1, weakerParentSummons - 1)
        offspring == [id |-> offspringId,
                      name |-> offspringName,
                      class |-> sigilClass,
                      subclass |-> subclass,
                      rarity |-> rarity,
                      generation |-> generation,
                      level |-> 1,
                      xp |-> 0,
                      xpToNextLevel |-> xpForLevel(1),
                      stats |-> stats,
                      statGrowthPrimary |-> CLASS_DEFINITIONS[sigilClass].primaryGrowth,
                      statGrowthSecondary |-> CLASS_DEFINITIONS[subclass].secondaryGrowth,
                      genes |-> genes,
                      profession |-> genes.profession.dominant,
                      professionSkillLevel |-> 0,
                      stamina |-> 25,
                      maxStamina |-> calculateMaxStamina(1),
                      hp |-> calculateMaxHp(stats, 1),
                      maxHp |-> calculateMaxHp(stats, 1),
                      mp |-> calculateMaxMp(stats, 1),
                      maxMp |-> calculateMaxMp(stats, 1),
                      summonsRemaining |-> maxSummons,
                      maxSummons |-> maxSummons,
                      summonCooldownEnd |-> Null,
                      parentIds |-> <<parent1.id, parent2.id>>,
                      owner |-> owner]
        record == [id |-> recordId,
                   parent1Id |-> parent1.id,
                   parent2Id |-> parent2.id,
                   offspringId |-> offspringId,
                   cost |-> cost,
                   generation |-> generation]
    IN  [offspring |-> offspring, record |-> record, cost |-> cost]

(* Draws: 1 .. GenomeDraws the genome, then the rarity roll, the eight     *)
(* base stats and the rarity bonus.                                        *)
executeSummon(parent1, parent2, offspringName, owner, offspringId, recordId, rnd) ==
    LET cost == calculateSummonCost(parent1, parent2)
        generation == Max(parent1.generation, parent2.generation) + 1
        genes == inheritGenes(parent1.genes, parent2.genes, rnd, 1)
        sigilClass == genes.class.dominant
        subclass == genes.subclass.dominant
        rarity == rollOffspringRarity(parent1.rarity, parent2.rarity,
                                      Draw(rnd, GenomeDraws + 1))
        base == generateBaseStats(sigilClass, rnd, GenomeDraws + 2)
        boostedStat == genes.statBoost.dominant
        boosted == [base EXCEPT ![boostedStat] = @ + 2]
        stats == IF rarity # "common"
                 THEN applyRarityBonuses(boosted, rarity, rnd,
                                         GenomeDraws + 2 + Len(STAT_KEYS))
                 ELSE boosted
        weakerParentSummons == Min(parent1.summonsRemaining, parent2.summonsRemaining)
        maxSummons == Max(1, weakerParentSummons - 1)
        offspring == [id |-> offspringId,
                      name |-> offspringName,
                      class |-> sigilClass,
                      subclass |-> subclass,
                      rarity |-> rarity,
                      generation |-> generation,
                      level |-> 1,
                      xp |-> 0,
                      xpToNextLevel |-> xpForLevel(1),
                      stats |-> stats,
                      statGrowthPrimary |-> CLASS_DEFINITIONS[sigilClass].primaryGrowth,
                      statGrowthSecondary |-> CLASS_DEFINITIONS[subclass].secondaryGrowth,
                      genes |-> genes,
                      profession |-> genes.profession.dominant,
                      professionSkillLevel |-> 0,
                      stamina |-> 25,
                      maxStamina |-> calculateMaxStamina(1),
                      hp |-> calculateMaxHp(stats, 1),
                      maxHp |-> calculateMaxHp(stats, 1),
                      mp |-> calculateMaxMp(stats, 1),
                      maxMp |-> calculateMaxMp(stats, 1),
                      summonsRemaining |-> maxSummons,
                      maxSummons |-> maxSummons,
                      summonCooldownEnd |-> Null,
                      parentIds |-> <<parent1.id, parent2.id>>,
                      owner |-> owner]
        record == [id |-> recordId,
                   parent1Id |-> parent1.id,
                   parent2Id |-> parent2.id,
                   offspringId |-> offspringId,
                   cost |-> cost,
                   generation |-> generation]
    IN  [offspring |-> offspring, record |-> record, cost |-> cost]

(* applySummonToParent computing the cooldown before the decrement *)
applySummonToParent_CooldownFirst(parent, t) ==
    LET cooled == [parent EXCEPT !.summonCooldownEnd = cooldownEndTime(parent, t)]
    IN  [cooled EXCEPT !.summonsRemaining = @ - 1]

applySummonToParent(parent, t) ==
    LET dec == [parent EXCEPT !.summonsRemaining = @ - 1]
    IN  [dec EXCEPT !.summonCooldownEnd = cooldownEndTime(dec, t)]

-----------------------------------------------------------------------------
(* State *)

Ids == 1..Len(sigils)

NoCall == [called |-> FALSE]

RECURSIVE SumUsed(_)
SumUsed(n) ==
    IF n = 0 THEN 0
    ELSE (sigils[n].maxSummons - sigils[n].summonsRemaining) + SumUsed(n - 1)

RECURSIVE SumRootUsed(_)
SumRootUsed(n) ==
    IF n = 0 THEN 0 ELSE rootUsed[n] + SumRootUsed(n - 1)

(* State-changing calls made so far: summons executed and side effects applied *)
Calls ==
    (Len(sigils) - Len(RootNames)) + SumUsed(Len(sigils)) - SumRootUsed(Len(RootNames))

IdleReq == [pc |-> "idle", p1 |-> 0, p2 |-> 0, seen |-> <<0, 0>>, quote |-> NoCall]

(* A generation-0 profile of class sigilClass and the given rarity, made   *)
(* with the seed rnd, that has used `used` of its summons, the last one at *)
(* time 0.                                                                 *)
Gen0Profile(i, name, sigilClass, rarity, rnd, used) ==
    LET genes == generateGen0Genes(sigilClass, rnd)
        base == generateBaseStats(sigilClass, rnd, 17)
        stats == applyRarityBonuses(base, rarity, rnd, 17 + Len(STAT_KEYS))
        fresh == [id |-> i,
                  name |-> name,
                  class |-> sigilClass,
                  subclass |-> genes.subclass.dominant,
                  rarity |-> rarity,
                  generation |-> 0,
                  level |-> 1,
                  xp |-> 0,
                  xpToNextLevel |-> xpForLevel(1),
                  stats |-> stats,
                  statGrowthPrimary |-> CLASS_DEFINITIONS[sigilClass].primaryGrowth,
                  statGrowthSecondary |->
                      CLASS_DEFINITIONS[genes.subclass.dominant].secondaryGrowth,
                  genes |-> genes,
                  profession |-> genes.profession.dominant,
                  professionSkillLevel |-> 0,
                  stamina |-> 25,
                  maxStamina |-> calculateMaxStamina(1),
                  hp |-> calculateMaxHp(stats, 1),
                  maxHp |-> calculateMaxHp(stats, 1),
                  mp |-> calculateMaxMp(stats, 1),
                  maxMp |-> calculateMaxMp(stats, 1),
                  summonsRemaining |-> GEN0_MAX_SUMMONS,
                  maxSummons |-> GEN0_MAX_SUMMONS,
                  summonCooldownEnd |-> Null,
                  parentIds |-> Null,
                  owner |-> CHOOSE o \in Owners : TRUE]
        spent == [fresh EXCEPT !.summonsRemaining = GEN0_MAX_SUMMONS - (used - 1)]
    IN  IF used = 0 THEN fresh ELSE applySummonToParent(spent, 0)

Root(i, name, used) ==
    Gen0Profile(i, name, RootClasses[i], RootRarities[i], RootSeeds[i], used)

Init ==
    /\ \E used \in [1..Len(RootNames) -> UNION {RootUsedChoices[i] : i \in 1..Len(RootNames)}] :
          /\ \A i \in 1..Len(RootNames) : used[i] \in RootUsedChoices[i]
          /\ sigils = [i \in 1..Len(RootNames) |-> Root(i, RootNames[i], used[i])]
          /\ rootUsed = used
    /\ records = <<>>
    /\ now = StartTime
    /\ elig = NoCall
    /\ req = [r \in Requests |-> IdleReq]
    /\ call = NoCall

(* A caller asks whether a and b may be summoned together. *)
CheckEligibility(a, b) ==
    /\ ~elig.called
    /\ elig' = [called |-> TRUE, p1 |-> a, p2 |-> b,
                result |-> checkSummonEligibility(sigils[a], sigils[b], now)]
    /\ UNCHANGED <<sigils, records, now, req, rootUsed, call>>

(* The caller has read the answer (as formatSummonPreview does) and drops it. *)
DropQuote ==
    /\ elig.called
    /\ elig' = NoCall
    /\ UNCHANGED <<sigils, records, now, req, rootUsed, call>>

(* ExecuteSummon applying the side effects to both parents itself *)
ExecuteSummon_AutoCommit(a, b, offspringName, owner) ==
    /\ ~elig.called
    /\ Len(sigils) < MaxSigils
    /\ Calls < MaxCalls
    /\ \E rnd \in PopulationSeeds :
       LET res == executeSummon(sigils[a], sigils[b], offspringName, owner,
                                Len(sigils) + 1, Len(records) + 1, rnd)
           applied == [sigils EXCEPT ![a] = applySummonToParent(sigils[a], now),
                                     ![b] = applySummonToParent(sigils[b], now)]
       IN  /\ sigils' = Append(applied, res.offspring)
           /\ records' = Append(records, res.record)
           /\ call' = [called |-> TRUE, fn |-> "executeSummon",
                       p1 |-> a, p2 |-> b, rnd |-> rnd]
    /\ UNCHANGED <<now, elig, req, rootUsed>>

(* A caller executes a summon and stores the offspring and the record;    *)
(* call keeps the arguments of the summon until a parent is changed.      *)
ExecuteSummon(a, b, offspringName, owner) ==
    /\ ~elig.called
    /\ Len(sigils) < MaxSigils
    /\ Calls < MaxCalls
    /\ \E rnd \in PopulationSeeds :
       LET res == executeSummon(sigils[a], sigils[b], offspringName, owner,
                                Len(sigils) + 1, Len(records) + 1, rnd)
       IN  /\ sigils' = Append(sigils, res.offspring)
           /\ records' = Append(records, res.record)
           /\ call' = [called |-> TRUE, fn |-> "executeSummon",
                       p1 |-> a, p2 |-> b, rnd |-> rnd]
    /\ UNCHANGED <<now, elig, req, rootUsed>>

(* A caller applies the summon side effects to one parent. *)
ApplySummonToParent(a) ==
    /\ ~elig.called
    /\ Calls < MaxCalls
    /\ sigils' = [sigils EXCEPT ![a] = applySummonToParent(sigils[a], now)]
    /\ call' = NoCall
    /\ UNCHANGED <<records, now, elig, req, rootUsed>>

(* Time passes until a pending cooldown expiry. *)
TickTargets ==
    {DateParse(sigils[i].summonCooldownEnd) :
        i \in {j \in Ids : sigils[j].summonCooldownEnd # Null}}

Tick ==
    /\ ~elig.called
    /\ \E t \in TickTargets :
          /\ t > now
          /\ t <= MaxTime
          /\ now' = t
    /\ UNCHANGED <<sigils, records, elig, req, rootUsed, call>>

Next ==
    \/ \E a \in Ids, b \in Ids : CheckEligibility(a, b)
    \/ DropQuote
    \/ \E a \in Ids, b \in Ids, n \in OffspringNames, o \in Owners :
          ExecuteSummon(a, b, n, o)
    \/ \E a \in Ids : ApplySummonToParent(a)
    \/ Tick

Spec == Init /\ [][Next]_vars

-----------------------------------------------------------------------------
(* Concurrent summon requests: each request checks eligibility, executes   *)
(* the summon, then applies the side effects to parent 1 and to parent 2,  *)
(* one call per step, interleaved with the other request.  seen holds the   *)
(* remaining uses the request read from its two parents.                   *)

ReqCheck(r, a, b) ==
    /\ req[r].pc = "idle"
    /\ LET res == checkSummonEligibility(sigils[a], sigils[b], now)
       IN  req' = [req EXCEPT ![r] =
                      [pc |-> IF res.eligible THEN "checked" ELSE "rejected",
                       p1 |-> a, p2 |-> b,
                       seen |-> <<sigils[a].summonsRemaining, sigils[b].summonsRemaining>>,
                       quote |-> [called |-> TRUE, result |-> res]]]
    /\ UNCHANGED <<sigils, records, now, elig, rootUsed, call>>

ReqExecute(r, offspringName, owner) ==
    /\ req[r].pc = "checked"
    /\ \E rnd \in PopulationSeeds :
       LET res == executeSummon(sigils[req[r].p1], sigils[req[r].p2], offspringName,
                                owner, Len(sigils) + 1, Len(records) + 1, rnd)
       IN  /\ sigils' = Append(sigils, res.offspring)
           /\ records' = Append(records, res.record)
    /\ req' = [req EXCEPT ![r].pc = "executed"]
    /\ UNCHANGED <<now, elig, rootUsed, call>>

ReqApplyP1(r) ==
    /\ req[r].pc = "executed"
    /\ sigils' = [sigils EXCEPT ![req[r].p1] = applySummonToParent(sigils[req[r].p1], now)]
    /\ req' = [req EXCEPT ![r].pc = "applied1"]
    /\ UNCHANGED <<records, now, elig, rootUsed, call>>

ReqApplyP2(r) ==
    /\ req[r].pc = "applied1"
    /\ sigils' = [sigils EXCEPT ![req[r].p2] = applySummonToParent(sigils[req[r].p2], now)]
    /\ req' = [req EXCEPT ![r].pc = "done"]
    /\ UNCHANGED <<records, now, elig, rootUsed, call>>

NextConc ==
    \/ \E r \in Requests, a \in Ids, b \in Ids : ReqCheck(r, a, b)
    \/ \E r \in Requests, n \in OffspringNames, o \in Owners : ReqExecute(r, n, o)
    \/ \E r \in Requests : ReqApplyP1(r)
    \/ \E r \in Requests : ReqApplyP2(r)
    \/ Tick

SpecConc == Init /\ [][NextConc]_vars

-----------------------------------------------------------------------------
(* One caller at a time: every summon is preceded by an eligibility check  *)
(* that answered eligible and followed by the side effects on parent 1 and *)
(* on parent 2; the next request starts when this one has ended.           *)

Caller == CHOOSE r \in Requests : \A q \in Requests : r <= q

SeqCheck(a, b) ==
    /\ Len(sigils) < MaxSigils
    /\ ReqCheck(Caller, a, b)

SeqExecute(offspringName, owner) == ReqExecute(Caller, offspringName, owner)

SeqApplyP1 == ReqApplyP1(Caller)

SeqApplyP2 == ReqApplyP2(Caller)

(* The request has ended, refused or carried out. *)
SeqEnd ==
    /\ req[Caller].pc \in {"rejected", "done"}
    /\ req' = [req EXCEPT ![Caller] = IdleReq]
    /\ UNCHANGED <<sigils, records, now, elig, rootUsed, call>>

NextSeq ==
    \/ \E a \in Ids, b \in Ids : SeqCheck(a, b)
    \/ \E n \in OffspringNames, o \in Owners : SeqExecute(n, o)
    \/ SeqApplyP1
    \/ SeqApplyP2
    \/ SeqEnd
    \/ Tick

SpecSeq == Init /\ [][NextSeq]_vars

-----------------------------------------------------------------------------
(* Offspring synthesis: summons and genome inheritances over a small       *)
(* population of generation-0 profiles of several classes and rarities.    *)

InitSynth ==
    /\ \E c1 \in SynthClasses[1], c2 \in SynthClasses[2],
          r1 \in SynthRarities[1], r2 \in SynthRarities[2] :
          sigils = <<Gen0Profile(1, RootNames[1], c1, r1, RootSeeds[1], 0),
                     Gen0Profile(2, RootNames[2], c2, r2, RootSeeds[2], 0)>>
    /\ rootUsed = [i \in 1..Len(RootNames) |-> 0]
    /\ records = <<>>
    /\ now = StartTime
    /\ elig = NoCall
    /\ req = [r \in Requests |-> IdleReq]
    /\ call = NoCall

(* A caller executes a summon and stores the offspring and the record. *)
Summon(a, b, offspringName, owner, rnd) ==
    /\ ~(call.called /\ call.fn = "inheritGenes")
    /\ Len(sigils) < Len(RootNames) + MaxBrood
    /\ LET res == executeSummon(sigils[a], sigils[b], offspringName, owner,
                                Len(sigils) + 1, Len(records) + 1, rnd)
       IN  /\ sigils' = Append(sigils, res.offspring)
           /\ records' = Append(records, res.record)
    /\ call' = [called |-> TRUE, fn |-> "executeSummon", p1 |-> a, p2 |-> b, rnd |-> rnd]
    /\ UNCHANGED <<now, elig, req, rootUsed>>

(* A caller computes the genome two stored profiles would give. *)
InheritGenes(a, b, rnd) ==
    /\ ~(call.called /\ call.fn = "inheritGenes")
    /\ call' = [called |-> TRUE, fn |-> "inheritGenes", p1 |-> a, p2 |-> b, rnd |-> rnd,
                result |-> inheritGenes(sigils[a].genes, sigils[b].genes, rnd, 1)]
    /\ UNCHANGED <<sigils, records, now, elig, req, rootUsed>>

(* The caller drops the genome it computed. *)
DropGenes ==
    /\ call.called
    /\ call.fn = "inheritGenes"
    /\ call' = NoCall
    /\ UNCHANGED <<sigils, records, now, elig, req, rootUsed>>

NextSynth ==
    \/ \E a \in Ids, b \in Ids, n \in OffspringNames, o \in Owners, rnd \in Seeds :
          Summon(a, b, n, o, rnd)
    \/ \E a \in Ids, b \in Ids, rnd \in Seeds : InheritGenes(a, b, rnd)
    \/ DropGenes

SpecSynth == InitSynth /\ [][NextSynth]_vars

-----------------------------------------------------------------------------
(* Stat blocks over a lifetime: generation-0 profiles of every rarity, one *)
(* offspring of theirs, and level-ups of any of them.                      *)

InitStats ==
    /\ \E c \in StatClasses, r \in Range(RARITY_TIERS) :
          sigils = <<Gen0Profile(1, RootNames[1], c, r, RootSeeds[1], 0),
                     Gen0Profile(2, RootNames[2], RootClasses[2], RootRarities[2],
                                 RootSeeds[2], 0)>>
    /\ rootUsed = [i \in 1..Len(RootNames) |-> 0]
    /\ records = <<>>
    /\ now = StartTime
    /\ elig = NoCall
    /\ req = [r \in Requests |-> IdleReq]
    /\ call = NoCall

RECURSIVE SumLevels(_)
SumLevels(n) == IF n = 0 THEN 0 ELSE (sigils[n].level - 1) + SumLevels(n - 1)

(* A caller levels a stored profile up; the profile is changed in place. *)
LevelUp(a, chosenStatBonus, rnd) ==
    /\ SumLevels(Len(sigils)) < MaxLevelUps
    /\ LET res == levelUp(sigils[a], chosenStatBonus, rnd)
       IN  /\ res.returns
           /\ sigils' = [sigils EXCEPT ![a] = res.sigil]
    /\ call' = NoCall
    /\ UNCHANGED <<records, now, elig, req, rootUsed>>

(* The two generation-0 profiles have their one offspring. *)
Breed(rnd) ==
    /\ Len(sigils) = Len(RootNames)
    /\ \E n \in OffspringNames, o \in Owners : Summon(1, 2, n, o, rnd)

NextStats ==
    \/ \E a \in Ids, o \in DOMAIN LevelOptions :
          LevelUp(a, LevelOptions[o].chosen, LevelOptions[o].rnd)
    \/ \E rnd \in StatSeeds : Breed(rnd)

SpecStats == InitStats /\ [][NextStats]_vars

-----------------------------------------------------------------------------
(* Rarity bonuses: calls of applyRarityBonuses on the stat block of a      *)
(* stored profile, for every rarity, with the picks of each pass recorded. *)

ApplyRarityBonuses(a, rarity, rnd) ==
    /\ call' = [called |-> TRUE, fn |-> "applyRarityBonuses",
                stats |-> sigils[a].stats, rarity |-> rarity, rnd |-> rnd,
                picks |-> RarityPicks(rarity, rnd, 1),
                result |-> applyRarityBonuses(sigils[a].stats, rarity, rnd, 1)]
    /\ UNCHANGED <<sigils, records, now, elig, req, rootUsed>>

NextBonus ==
    \E a \in Ids, rarity \in Range(RARITY_TIERS), rnd \in BonusSeeds :
        ApplyRarityBonuses(a, rarity, rnd)

SpecBonus == InitStats /\ [][NextBonus]_vars

-----------------------------------------------------------------------------
(* Rolls: calls of selectGene on the gene layers of a stored profile and  *)
(* of rollOffspringRarity on every pair of rarities, for rolls around the *)
(* thresholds.                                                            *)

InitRoll ==
    /\ sigils = <<Gen0Profile(1, RootNames[1], RootClasses[1], RootRarities[1],
                              RootSeeds[1], 0),
                  Gen0Profile(2, RootNames[2], RootClasses[2], RootRarities[2],
                              RootSeeds[2], 0)>>
    /\ rootUsed = [i \in 1..Len(RootNames) |-> 0]
    /\ records = <<>>
    /\ now = StartTime
    /\ elig = NoCall
    /\ req = [r \in Requests |-> IdleReq]
    /\ call = NoCall

SelectGene(a, slot, roll) ==
    /\ ~call.called
    /\ call' = [called |-> TRUE, fn |-> "selectGene",
                layers |-> sigils[a].genes[slot], roll |-> roll,
                result |-> selectGene(sigils[a].genes[slot], roll)]
    /\ UNCHANGED <<sigils, records, now, elig, req, rootUsed>>

RollOffspringRarity(p1Rarity, p2Rarity, roll) ==
    /\ ~call.called
    /\ call' = [called |-> TRUE, fn |-> "rollOffspringRarity",
                p1Rarity |-> p1Rarity, p2Rarity |-> p2Rarity, roll |-> roll,
                result |-> rollOffspringRarity(p1Rarity, p2Rarity, roll)]
    /\ UNCHANGED <<sigils, records, now, elig, req, rootUsed>>

(* The caller has read the value a call returned. *)
ReadRoll ==
    /\ call.called
    /\ call' = NoCall
    /\ UNCHANGED <<sigils, records, now, elig, req, rootUsed>>

NextRoll ==
    \/ ReadRoll
    \/ \E a \in Ids, slot \in Range(SlotNames), roll \in RollPoints : SelectGene(a, slot, roll)
    \/ \E p1Rarity \in Range(RARITY_TIERS), p2Rarity \in Range(RARITY_TIERS),
           roll \in RollPoints : RollOffspringRarity(p1Rarity, p2Rarity, roll)

SpecRoll == InitRoll /\ [][NextRoll]_vars

-----------------------------------------------------------------------------
(* Broken inputs: summons whose first parent carries a rarity or a gene   *)
(* value the registry does not know, or a genome that lacks a slot.       *)

Corrupt(parent, fault) ==
    CASE fault = "rarity" -> [parent EXCEPT !.rarity = "epic"]
      [] fault = "classGene" -> [parent EXCEPT !.genes.class.dominant = "wraith"]
      [] fault = "professionGene" ->
            [parent EXCEPT !.genes.profession.dominant = "smithing"]
      [] fault = "missingSlot" ->
            [parent EXCEPT !.genes = [slot \in DOMAIN parent.genes \ {"statBoost"} |->
                                         parent.genes[slot]]]
      [] OTHER -> parent

SummonFaulty(a, b, fault, offspringName, owner, rnd) ==
    /\ Len(sigils) < Len(RootNames) + MaxBrood
    /\ LET parent1 == Corrupt(sigils[a], fault)
           threw == executeSummonThrows(parent1, sigils[b], rnd)
       IN  /\ call' = [called |-> TRUE, fn |-> "executeSummon", p1 |-> a, p2 |-> b,
                       rnd |-> rnd, fault |-> fault, threw |-> threw]
           /\ IF threw
              THEN UNCHANGED <<sigils, records>>
              ELSE LET res == executeSummon(parent1, sigils[b], offspringName, owner,
                                            Len(sigils) + 1, Len(records) + 1, rnd)
                   IN  /\ sigils' = Append(sigils, res.offspring)
                       /\ records' = Append(records, res.record)
    /\ UNCHANGED <<now, elig, req, rootUsed>>

NextFault ==
    \E a \in Ids, b \in Ids, fault \in Faults, n \in OffspringNames, o \in Owners,
       rnd \in Seeds : SummonFaulty(a, b, fault, n, o, rnd)

SpecFault == InitSynth /\ [][NextFault]_vars

-----------------------------------------------------------------------------
(* Experience: one profile takes quests and is levelled up whenever        *)
(* canLevelUp allows it.                                                   *)

(* Level and experience of the profile a run starts with: new, close to  *)
(* its first level-up, and at level 99 short of the last level-up or     *)
(* with the experience of two level-ups saved                            *)
LevelStarts == {[level |-> 1, xp |-> 0],
                [level |-> 1, xp |-> 85],
                [level |-> MAX_LEVEL - 1, xp |-> xpForLevel(MAX_LEVEL - 1) - 12],
                [level |-> MAX_LEVEL - 1,
                 xp |-> xpForLevel(MAX_LEVEL - 1) + xpForLevel(MAX_LEVEL) - 12]}

(* A profile that has reached a level without any stat growth *)
Veteran(profile, level, xp) ==
    [profile EXCEPT
        !.level = level,
        !.xp = xp,
        !.xpToNextLevel = xpForLevel(level),
        !.maxHp = calculateMaxHp(profile.stats, level),
        !.hp = calculateMaxHp(profile.stats, level),
        !.maxMp = calculateMaxMp(profile.stats, level),
        !.mp = calculateMaxMp(profile.stats, level),
        !.maxStamina = calculateMaxStamina(level),
        !.stamina = calculateMaxStamina(level)]

InitLevel ==
    /\ \E start \in LevelStarts, r \in {RootRarities[1], RootRarities[2]} :
          sigils = <<Veteran(Gen0Profile(1, RootNames[1], RootClasses[1], r,
                                         RootSeeds[1], 0),
                             start.level, start.xp)>>
    /\ rootUsed = [i \in 1..Len(RootNames) |-> 0]
    /\ records = <<>>
    /\ now = StartTime
    /\ elig = NoCall
    /\ req = [r \in Requests |-> IdleReq]
    /\ call = NoCall

(* The profile, able to quest, finishes a quest and the result is applied *)
(* to it.                                                                 *)
ApplyQuestResults(a, questType, rnd) ==
    /\ canQuest(sigils[a]).ok
    /\ sigils' = [sigils EXCEPT
                    ![a] = applyQuestResults(@, executeQuest(@, questType, rnd))]
    /\ call' = [called |-> TRUE, fn |-> "applyQuestResults", p1 |-> a]
    /\ UNCHANGED <<records, now, elig, req, rootUsed>>

(* A caller levels the profile up after canLevelUp answered ok. *)
LevelUpIfAble(a, chosenStatBonus, rnd) ==
    /\ canLevelUp(sigils[a]).ok
    /\ LET res == levelUp(sigils[a], chosenStatBonus, rnd)
       IN  /\ res.returns
           /\ sigils' = [sigils EXCEPT ![a] = res.sigil]
    /\ call' = [called |-> TRUE, fn |-> "levelUp", p1 |-> a]
    /\ UNCHANGED <<records, now, elig, req, rootUsed>>

NextLevel ==
    \/ \E a \in Ids, questType \in Range(PROFESSIONS), rnd \in QuestSeeds :
          ApplyQuestResults(a, questType, rnd)
    \/ \E a \in Ids, o \in DOMAIN LevelOptions :
          LevelUpIfAble(a, LevelOptions[o].chosen, LevelOptions[o].rnd)

SpecLevel == InitLevel /\ [][NextLevel]_vars

-----------------------------------------------------------------------------
(* Paid fetch (x402.ts).  One paidFetch call, one step per await: the      *)
(* initial fetch, the reading of a body, the SOL transfer, the paid fetch. *)
(* call holds the call in progress: where it waits, the requests it has    *)
(* sent, the transfers it has asked for, the responses it got and what it  *)
(* returned.                                                               *)

Statuses == {200, 402, 404, 500}

(* The decoded X-Payment-Required header: absent (or empty), not valid     *)
(* base64 JSON, or payment requirements with a list of accepted options    *)
Option(network) ==
    [network |-> network, payToAddress |-> "payee", maxAmountRequired |-> "0.01"]

Headers == {[kind |-> "absent", accepts |-> <<>>],
            [kind |-> "garbled", accepts |-> <<>>],
            [kind |-> "requirements", accepts |-> <<>>],
            [kind |-> "requirements", accepts |-> <<Option("base"), Option("solana")>>],
            [kind |-> "requirements", accepts |-> <<Option("solana"), Option("base")>>]}

(* What reading the body gives: JSON, or, json() having failed, the text   *)
(* from the fallback, or a rejection of the fallback as well               *)
Bodies == {"json", "text", "unreadable"}

Responses == [status : Statuses, header : Headers, body : Bodies]

NoResponse == [status |-> 0, header |-> [kind |-> "absent", accepts |-> <<>>], body |-> "json"]

(* response.ok *)
Ok(resp) == resp.status >= 200 /\ resp.status <= 299

NoProof == [network |-> "", signature |-> "", from |-> ""]

NoResult == [returned |-> FALSE, thrown |-> FALSE, success |-> FALSE, error |-> ""]

Returned(success, error) ==
    [returned |-> TRUE, thrown |-> FALSE, success |-> success, error |-> error]

(* requirements.accepts?.[0] *)
FirstAccept(header) ==
    IF Len(header.accepts) = 0 THEN Option("") ELSE header.accepts[1]

(* payable treating any offered option as a Solana one *)
payable_AnyNetwork(header) == Len(header.accepts) > 0

(* !(!accept || accept.network !== "solana") *)
payable(header) == Len(header.accepts) > 0 /\ FirstAccept(header).network = "solana"

FetchCall == call.called /\ call.fn = "paidFetch"

InitFetch == InitRoll

(* paidFetch is called and sends the initial request. *)
PaidFetch ==
    /\ ~call.called
    /\ call' = [called |-> TRUE, fn |-> "paidFetch", pc |-> "initial",
                sent |-> <<NoProof>>, transfers |-> <<>>,
                initial |-> NoResponse, paid |-> NoResponse, result |-> NoResult]
    /\ UNCHANGED <<sigils, records, now, elig, req, rootUsed>>

(* A fetch rejects; the catch clause returns the failure. *)
FetchFails ==
    /\ FetchCall
    /\ call.pc \in {"initial", "paid"}
    /\ call' = [call EXCEPT !.pc = "done", !.result = Returned(FALSE, "fetch failed")]
    /\ UNCHANGED <<sigils, records, now, elig, req, rootUsed>>

(* The initial response arrives.  Anything but 402 goes on to read the     *)
(* body; a 402 is examined and either ends the call or starts the          *)
(* transfer.                                                               *)
InitialResponds(resp) ==
    /\ FetchCall
    /\ call.pc = "initial"
    /\ call' =
         IF resp.status # 402
         THEN [call EXCEPT !.pc = "initialBody", !.initial = resp]
         ELSE IF resp.header.kind = "absent"
         THEN [call EXCEPT !.pc = "done", !.initial = resp,
                           !.result = Returned(FALSE, "402 returned but no payment requirements")]
         ELSE IF resp.header.kind = "garbled"
         THEN [call EXCEPT !.pc = "done", !.initial = resp,
                           !.result = Returned(FALSE, "Unexpected token")]
         ELSE IF ~payable(resp.header)
         THEN [call EXCEPT !.pc = "done", !.initial = resp,
                           !.result = Returned(FALSE, "No Solana payment option available")]
         ELSE [call EXCEPT !.pc = "transfer", !.initial = resp,
                           !.transfers = Append(@, [to |-> FirstAccept(resp.header).payToAddress,
                                                    amount |-> FirstAccept(resp.header).maxAmountRequired])]
    /\ UNCHANGED <<sigils, records, now, elig, req, rootUsed>>

(* The body of the last response has been read, or could not be. *)
BodyRead ==
    /\ FetchCall
    /\ call.pc \in {"initialBody", "paidBody"}
    /\ LET resp == IF call.pc = "initialBody" THEN call.initial ELSE call.paid
       IN  call' = [call EXCEPT
                      !.pc = "done",
                      !.result = IF resp.body = "unreadable"
                                 THEN Returned(FALSE, "Body is unusable")
                                 ELSE Returned(Ok(resp), "")]
    /\ UNCHANGED <<sigils, records, now, elig, req, rootUsed>>

(* transferSol resolves with a signature; the request is sent again with   *)
(* the payment proof.                                                      *)
TransferConfirmed(signature) ==
    /\ FetchCall
    /\ call.pc = "transfer"
    /\ call' = [call EXCEPT
                  !.pc = "paid",
                  !.sent = Append(@, [network |-> "solana", signature |-> signature,
                                      from |-> "payer"])]
    /\ UNCHANGED <<sigils, records, now, elig, req, rootUsed>>

(* transferSol rejects; the catch clause returns the failure. *)
TransferFails ==
    /\ FetchCall
    /\ call.pc = "transfer"
    /\ call' = [call EXCEPT !.pc = "done", !.result = Returned(FALSE, "transfer failed")]
    /\ UNCHANGED <<sigils, records, now, elig, req, rootUsed>>

(* The response to the paid request arrives; its body is read next. *)
PaidResponds(resp) ==
    /\ FetchCall
    /\ call.pc = "paid"
    /\ call' = [call EXCEPT !.pc = "paidBody", !.paid = resp]
    /\ UNCHANGED <<sigils, records, now, elig, req, rootUsed>>

NextFetch ==
    \/ PaidFetch
    \/ FetchFails
    \/ \E resp \in Responses : InitialResponds(resp)
    \/ BodyRead
    \/ \E signature \in {"sig1", "sig2"} : TransferConfirmed(signature)
    \/ TransferFails
    \/ \E resp \in Responses : PaidResponds(resp)

SpecFetch == InitFetch /\ [][NextFetch]_vars

-----------------------------------------------------------------------------
(* Vocabulary of the properties, stated from the profile fields alone *)

Used(p) == p.maxSummons - p.summonsRemaining

OwnCost(p) == 2000 + 1000 * Used(p) + 500 * p.generation

MoreBredOrLater(p, q) ==
    \/ p.generation = q.generation /\ Used(p) < Used(q)
    \/ Used(p) = Used(q) /\ p.generation < q.generation

ParentSet(p) == IF p.parentIds = Null THEN {} ELSE {p.parentIds[k] : k \in 1..2}

Related(p, q) ==
    \/ q.id \in ParentSet(p)
    \/ p.id \in ParentSet(q)
    \/ /\ p.parentIds # Null
       /\ q.parentIds # Null
       /\ ParentSet(p) = ParentSet(q)

Expiry(p) == p.summonCooldownEnd[1] * 24 * 3600000 + p.summonCooldownEnd[2]

OwnCooldownHours(p) ==
    IF p.generation = 0 THEN 4 + 4 * Used(p)
    ELSE (24 + 8 * p.generation) * (Used(p) + 1)

CoolingDown(p) == p.summonCooldownEnd # Null /\ now < Expiry(p)

Quote(a, b) == checkSummonEligibility(sigils[a], sigils[b], now)

(* The two profiles of the checkSummonEligibility call whose answer elig holds *)
AskedP == sigils[elig.p1]

AskedQ == sigils[elig.p2]

SelfReason == <<"Cannot summon with self">>

RelatedReason == <<"Parents are too closely related (siblings or parent-child)">>

ReasonKind(reason) ==
    IF Len(reason) = 1
    THEN (IF reason = SelfReason THEN "self"
          ELSE IF reason = RelatedReason THEN "related" ELSE "unknown")
    ELSE IF Len(reason) = 2 /\ reason[2] = " has no summons remaining" THEN "exhausted"
    ELSE IF Len(reason) = 3 /\ reason[2] = " is on cooldown until " THEN "cooldown"
    ELSE "unknown"

(* The last profile created, and the two arguments of the executeSummon   *)
(* call that created it                                                   *)
Newest == sigils[Len(sigils)]

SummonedP == sigils[call.p1]

SummonedQ == sigils[call.p2]

Bred == Ids \ (1..Len(RootNames))

LayerValues(layers) == {layers.dominant, layers.recessive, layers.hidden}

(* No draw of the seed is below the 2% mutation rate *)
NeverMutates(rnd) == \A j \in 1..Len(rnd) : rnd[j] * 100 >= 2 * RollScale

SlotDomain(slot) ==
    IF slot \in {"class", "subclass"}
    THEN {"ember", "thorn", "veil", "tidecaller", "sparkwright", "hollow"}
    ELSE IF slot = "profession" THEN {"mining", "fishing", "foraging", "gardening"}
    ELSE IF slot = "activeAbility" THEN Range(ACTIVE_ABILITIES)
    ELSE IF slot = "passiveAbility" THEN Range(PASSIVE_ABILITIES)
    ELSE {"str", "dex", "agi", "vit", "end", "int", "wis", "lck"}

GenomeCall == call.called /\ call.fn = "inheritGenes"

BothDone == \A r \in Requests : req[r].pc = "done"

Involves(r, a) == req[r].pc # "idle" /\ (req[r].p1 = a \/ req[r].p2 = a)

SeenLeft(r, a) == IF req[r].p1 = a THEN req[r].seen[1] ELSE req[r].seen[2]

-----------------------------------------------------------------------------
(* C1: after any sequence of executeSummon and applySummonToParent calls,  *)
(* every profile has 0 <= summonsRemaining <= maxSummons and               *)
(* maxSummons >= 1.                                                        *)
C1_UsesWithinBudget ==
    \A a \in Ids :
        /\ 0 <= sigils[a].summonsRemaining
        /\ sigils[a].summonsRemaining <= sigils[a].maxSummons
        /\ sigils[a].maxSummons >= 1

(* C2: of two concurrent requests that both read the same parent with     *)
(* exactly one remaining use, at most one succeeds.                        *)
C2_AtMostOneSucceeds ==
    \A a \in Ids :
        (\A r \in Requests : Involves(r, a) /\ SeenLeft(r, a) = 1) => ~BothDone

(* C3: executeSummon produces no offspring and no record for a pair that   *)
(* checkSummonEligibility rejects.                                         *)
C3_ExecuteRejectsIneligible ==
    [][Len(sigils') > Len(sigils) =>
          LET o == sigils'[Len(sigils')]
          IN  Quote(o.parentIds[1], o.parentIds[2]).eligible]_vars

(* C4: checkSummonEligibility answers eligible exactly when the ids       *)
(* differ, the pair is not related, both profiles have summonsRemaining    *)
(* > 0 and neither has a cooldown expiry later than now; a pair with       *)
(* identical ids is rejected whatever its other fields.                    *)
C4_EligibleIffAllFour ==
    elig.called =>
        /\ elig.result.eligible <=>
              /\ AskedP.id # AskedQ.id
              /\ ~Related(AskedP, AskedQ)
              /\ AskedP.summonsRemaining > 0
              /\ AskedQ.summonsRemaining > 0
              /\ ~CoolingDown(AskedP)
              /\ ~CoolingDown(AskedQ)
        /\ AskedP.id = AskedQ.id => ~elig.result.eligible

(* A call answered eligible for a parent whose earlier cooldown has run out *)
C4_Witness ==
    /\ elig.called
    /\ elig.result.eligible
    /\ AskedP.summonCooldownEnd # Null

(* C5: checkSummonEligibility rejects, in either argument order, a pair    *)
(* in which one id is in the other's parent pair and a pair whose parent   *)
(* pairs are equal as unordered pairs; two distinct generation-0 profiles  *)
(* are never rejected for relatedness.                                     *)
C5_RelatedRejected ==
    elig.called =>
        /\ (AskedQ.id \in ParentSet(AskedP) \/ AskedP.id \in ParentSet(AskedQ)) =>
              ~elig.result.eligible /\ ~Quote(elig.p2, elig.p1).eligible
        /\ (AskedP.parentIds # Null /\ AskedQ.parentIds # Null
               /\ ParentSet(AskedP) = ParentSet(AskedQ)) =>
              ~elig.result.eligible /\ ~Quote(elig.p2, elig.p1).eligible
        /\ (AskedP.id # AskedQ.id /\ AskedP.parentIds = Null /\ AskedQ.parentIds = Null
               /\ ~elig.result.eligible) =>
              elig.result.reason # RelatedReason

(* Siblings recorded with their parents in opposite orders were refused *)
C5_Witness ==
    /\ elig.called
    /\ ~elig.result.eligible
    /\ elig.result.reason = RelatedReason
    /\ elig.p1 # elig.p2
    /\ AskedP.parentIds # Null
    /\ AskedQ.parentIds # Null
    /\ AskedP.parentIds[1] # AskedP.parentIds[2]
    /\ AskedQ.parentIds = <<AskedP.parentIds[2], AskedP.parentIds[1]>>
    /\ elig.p1 \notin ParentSet(AskedQ)
    /\ elig.p2 \notin ParentSet(AskedP)

(* C6: when several conditions fail at once the reason reported is that of *)
(* the first in the order self, relatedness, exhausted uses, cooldown.     *)
C6_FirstFailingReason ==
    elig.called =>
        LET self == AskedP.id = AskedQ.id
            rel == Related(AskedP, AskedQ)
            exh == AskedP.summonsRemaining <= 0 \/ AskedQ.summonsRemaining <= 0
            cool == CoolingDown(AskedP) \/ CoolingDown(AskedQ)
            r == elig.result
        IN  /\ self => ReasonKind(r.reason) = "self"
            /\ (~self /\ rel) => ReasonKind(r.reason) = "related"
            /\ (~self /\ ~rel /\ exh) => ReasonKind(r.reason) = "exhausted"
            /\ (~self /\ ~rel /\ ~exh /\ cool) => ReasonKind(r.reason) = "cooldown"

(* A related pair with an exhausted parent on cooldown was refused as related *)
C6_Witness ==
    /\ elig.called
    /\ ~elig.result.eligible
    /\ elig.p1 # elig.p2
    /\ Related(AskedP, AskedQ)
    /\ AskedP.summonsRemaining <= 0
    /\ CoolingDown(AskedP)
    /\ ReasonKind(elig.result.reason) = "related"

(* C7 as stated: every ineligible answer carries a reason string and a     *)
(* machine-checkable category.                                             *)
C7_ReasonAndCategory ==
    (elig.called /\ ~elig.result.eligible) =>
        {"reason", "category"} \subseteq DOMAIN elig.result

(* C7 amended: every ineligible answer is a returned value made of the     *)
(* eligible flag and a reason string only (there is no category field);    *)
(* the text of the reason has one of four forms, which tells the failed    *)
(* condition; an eligible answer carries no reason.                        *)
C7_ReasonOnly ==
    elig.called =>
        /\ ~elig.result.eligible =>
              /\ DOMAIN elig.result = {"eligible", "reason"}
              /\ ReasonKind(elig.result.reason)
                    \in {"self", "related", "exhausted", "cooldown"}
        /\ elig.result.eligible =>
              DOMAIN elig.result = {"eligible", "cost", "cooldownHoursP1", "cooldownHoursP2"}

(* A refusal for exhausted uses was returned to the caller *)
C7_Witness ==
    /\ elig.called
    /\ ~elig.result.eligible
    /\ ReasonKind(elig.result.reason) = "exhausted"

(* C8: applySummonToParent at time t sets the parent's expiry to t + d     *)
(* with d > 0, and an expiry never moves earlier; a parent whose expiry is *)
(* later than now is refused in every pair, in either position; from the   *)
(* expiry on, and when no expiry is set, the cooldown does not block: a    *)
(* pair that meets the other three conditions is eligible.                 *)
C8_CooldownWindow ==
    /\ [](elig.called =>
            LET free(x) == x.summonCooldownEnd = Null \/ now >= Expiry(x)
                blocked(x) == x.summonCooldownEnd # Null /\ now < Expiry(x)
            IN  /\ (blocked(AskedP) \/ blocked(AskedQ)) => ~elig.result.eligible
                /\ (free(AskedP) /\ free(AskedQ) /\ AskedP.id # AskedQ.id
                       /\ ~Related(AskedP, AskedQ)
                       /\ AskedP.summonsRemaining > 0 /\ AskedQ.summonsRemaining > 0) =>
                      elig.result.eligible)
    /\ [][\A a \in Ids :
            /\ sigils'[a].summonsRemaining < sigils[a].summonsRemaining =>
                  /\ sigils'[a].summonCooldownEnd # Null
                  /\ Expiry(sigils'[a]) = now + cooldownHours(sigils'[a]) * 3600000
                  /\ Expiry(sigils'[a]) > now
            /\ sigils[a].summonCooldownEnd # Null =>
                  /\ sigils'[a].summonCooldownEnd # Null
                  /\ Expiry(sigils'[a]) >= Expiry(sigils[a])]_vars

(* A pair was refused only because a parent's cooldown is still running *)
C8_Witness ==
    /\ elig.called
    /\ ~elig.result.eligible
    /\ ReasonKind(elig.result.reason) = "cooldown"
    /\ Used(AskedP) > 0
    /\ elig.result.reason[3] = AskedP.summonCooldownEnd
    /\ now < Expiry(AskedP)

(* C9: the cost of a pair is the larger of the two parents' own costs      *)
(* 2000 + 1000 * used + 500 * generation, not their sum, the same in       *)
(* either order, and 2000 for two unused generation-0 parents; it is the   *)
(* cost quoted by checkSummonEligibility and recorded by executeSummon.    *)
C9_CostIsMax ==
    /\ [](elig.called =>
            LET c == calculateSummonCost(AskedP, AskedQ)
            IN  /\ c >= OwnCost(AskedP)
                /\ c >= OwnCost(AskedQ)
                /\ c \in {OwnCost(AskedP), OwnCost(AskedQ)}
                /\ c # OwnCost(AskedP) + OwnCost(AskedQ)
                /\ c = calculateSummonCost(AskedQ, AskedP)
                /\ (AskedP.generation = 0 /\ AskedQ.generation = 0
                       /\ Used(AskedP) = 0 /\ Used(AskedQ) = 0) => c = 2000
                /\ elig.result.eligible => elig.result.cost = c)
    /\ [][Len(records') > Len(records) =>
            LET rec == records'[Len(records')]
                p == sigils[rec.parent1Id]
                q == sigils[rec.parent2Id]
            IN  /\ rec.cost >= OwnCost(p)
                /\ rec.cost >= OwnCost(q)
                /\ rec.cost \in {OwnCost(p), OwnCost(q)}]_vars

(* A quote was returned for parents of different own costs *)
C9_Witness ==
    /\ elig.called
    /\ elig.result.eligible
    /\ OwnCost(AskedP) > OwnCost(AskedQ)
    /\ elig.result.cost = OwnCost(AskedP)

(* C10 as stated: the cost of a pair is strictly larger whenever one       *)
(* parent has more uses consumed or a higher generation, the rest equal.   *)
C10_CostStrictlyIncreases ==
    (elig.called /\ elig.p1 # elig.p2) =>
        \A a2 \in Ids \ {elig.p2} :
            MoreBredOrLater(AskedP, sigils[a2]) =>
                /\ calculateSummonCost(AskedP, AskedQ)
                      < calculateSummonCost(sigils[a2], AskedQ)
                /\ calculateSummonCost(AskedQ, AskedP)
                      < calculateSummonCost(AskedQ, sigils[a2])

(* C10 amended: the cost never decreases when one parent has more uses     *)
(* consumed or a higher generation, the rest equal, and it is strictly     *)
(* larger exactly when that parent's own cost exceeds the other parent's.  *)
C10_CostMonotone ==
    (elig.called /\ elig.p1 # elig.p2) =>
        \A a2 \in Ids \ {elig.p2} :
            MoreBredOrLater(AskedP, sigils[a2]) =>
                LET lo == calculateSummonCost(AskedP, AskedQ)
                    hi == calculateSummonCost(sigils[a2], AskedQ)
                IN  /\ lo <= hi
                    /\ (lo < hi) <=> (OwnCost(sigils[a2]) > OwnCost(AskedQ))
                    /\ calculateSummonCost(AskedQ, AskedP) = lo
                    /\ calculateSummonCost(AskedQ, sigils[a2]) = hi

(* A more-bred parent raised the cost of the pair it sets the price of *)
C10_Witness ==
    /\ elig.called
    /\ elig.result.eligible
    /\ \E a2 \in Ids \ {elig.p1, elig.p2} :
          /\ sigils[a2].generation = AskedP.generation
          /\ Used(AskedP) < Used(sigils[a2])
          /\ elig.result.cost < calculateSummonCost(sigils[a2], AskedQ)

(* C11: the cooldown of a parent is 4 + 4k hours for generation 0 and     *)
(* (24 + 8 * generation) * (k + 1) hours for generation >= 1, with k its   *)
(* own uses consumed; it is the duration quoted for that parent whoever    *)
(* the other parent is, and the duration applySummonToParent applies.      *)
C11_OwnCooldown ==
    /\ [](elig.called /\ elig.result.eligible =>
            /\ elig.result.cooldownHoursP1 = OwnCooldownHours(AskedP)
            /\ elig.result.cooldownHoursP2 = OwnCooldownHours(AskedQ)
            /\ \A c \in Ids :
                  /\ Quote(elig.p1, c).eligible =>
                        Quote(elig.p1, c).cooldownHoursP1 = elig.result.cooldownHoursP1
                  /\ Quote(c, elig.p2).eligible =>
                        Quote(c, elig.p2).cooldownHoursP2 = elig.result.cooldownHoursP2)
    /\ [][\A a \in Ids :
            sigils'[a].summonsRemaining < sigils[a].summonsRemaining =>
                Expiry(sigils'[a]) = now + OwnCooldownHours(sigils'[a]) * 3600000]_vars

(* A quote gave a generation-1 parent and a generation-0 parent different  *)
(* cooldowns                                                               *)
C11_Witness ==
    /\ elig.called
    /\ elig.result.eligible
    /\ AskedP.generation >= 1
    /\ AskedQ.generation = 0
    /\ elig.result.cooldownHoursP1 # elig.result.cooldownHoursP2

(* C12: each applySummonToParent call lowers the profile's summonsRemaining *)
(* by exactly one and sets its expiry to now plus the cooldown of the       *)
(* already-decremented count; a second call on the same profile lowers it   *)
(* by one more, two in all.                                                 *)
C12_ApplyDecrementsOnce ==
    /\ [](\A a \in Ids :
            LET once == applySummonToParent(sigils[a], now)
                twice == applySummonToParent(once, now)
            IN  /\ once.summonsRemaining = sigils[a].summonsRemaining - 1
                /\ twice.summonsRemaining = sigils[a].summonsRemaining - 2
                /\ twice # once
                /\ Expiry(once) = now + OwnCooldownHours(once) * 3600000)
    /\ [][\A a \in Ids :
            sigils'[a] # sigils[a] =>
                /\ sigils'[a].summonsRemaining = sigils[a].summonsRemaining - 1
                /\ Used(sigils'[a]) = Used(sigils[a]) + 1
                /\ Expiry(sigils'[a]) = now + OwnCooldownHours(sigils'[a]) * 3600000]_vars

(* A profile that started unused has had the side effects applied twice *)
C12_Witness ==
    \E a \in Ids :
        /\ Used(sigils[a]) = 2
        /\ a \in 1..Len(RootNames) => rootUsed[a] = 0
        /\ sigils[a].summonCooldownEnd # Null
        /\ Expiry(sigils[a]) = now + OwnCooldownHours(sigils[a]) * 3600000

(* C13: a step that runs checkSummonEligibility or executeSummon leaves   *)
(* every stored profile as it was, the two parents included; a step that  *)
(* changes a stored profile changes nothing of it but summonsRemaining    *)
(* and summonCooldownEnd.                                                 *)
C13_ParentsUntouched ==
    [][/\ (elig' # elig \/ Len(sigils') > Len(sigils)) =>
             \A a \in Ids : sigils'[a] = sigils[a]
       /\ \A a \in Ids :
             sigils'[a] # sigils[a] =>
                 /\ Len(sigils') = Len(sigils)
                 /\ [sigils'[a] EXCEPT
                        !.summonsRemaining = sigils[a].summonsRemaining,
                        !.summonCooldownEnd = sigils[a].summonCooldownEnd] = sigils[a]]_vars

(* An offspring was made from two distinct roots that are still unused   *)
(* and have no cooldown                                                  *)
C13_Witness ==
    /\ call.called
    /\ call.p1 # call.p2
    /\ Newest.parentIds = <<call.p1, call.p2>>
    /\ \A a \in {call.p1, call.p2} :
          /\ a <= Len(RootNames)
          /\ Used(sigils[a]) = 0
          /\ sigils[a].summonCooldownEnd = Null
          /\ sigils[a] = Root(a, RootNames[a], 0)

(* C14: every bred profile has generation max(parent generations) + 1,   *)
(* hence >= 1; its parentIds are the two arguments of the summon in      *)
(* their order; its record holds the same generation, the same parent    *)
(* ids and its id.  Roots have generation 0 and no parents.              *)
C14_GenerationAndLineage ==
    /\ \A i \in Bred :
          LET o == sigils[i]
              rec == records[i - Len(RootNames)]
          IN  /\ o.parentIds # Null
              /\ Len(o.parentIds) = 2
              /\ LET g1 == sigils[o.parentIds[1]].generation
                     g2 == sigils[o.parentIds[2]].generation
                 IN  o.generation = (IF g1 >= g2 THEN g1 ELSE g2) + 1
              /\ o.generation >= 1
              /\ rec.generation = o.generation
              /\ rec.parent1Id = o.parentIds[1]
              /\ rec.parent2Id = o.parentIds[2]
              /\ rec.offspringId = o.id
    /\ \A i \in Ids \ Bred : sigils[i].generation = 0 /\ sigils[i].parentIds = Null
    /\ call.called => Newest.parentIds = <<SummonedP.id, SummonedQ.id>>

(* A generation-0 first parent and a generation-1 second parent gave a   *)
(* generation-2 offspring                                                *)
C14_Witness ==
    /\ call.called
    /\ SummonedP.generation = 0
    /\ SummonedQ.generation = 1
    /\ Newest.generation = 2
    /\ Newest.parentIds = <<call.p1, call.p2>>
    /\ records[Len(records)].offspringId = Newest.id

(* C15: the offspring's maxSummons is max(1, min(remaining uses of the    *)
(* two parents) - 1), its summonsRemaining equals its maxSummons and its  *)
(* cooldown expiry is unset.                                              *)
C15_OffspringBudget ==
    call.called =>
        LET r1 == SummonedP.summonsRemaining
            r2 == SummonedQ.summonsRemaining
            weaker == IF r1 <= r2 THEN r1 ELSE r2
        IN  /\ Newest.maxSummons = (IF weaker - 1 >= 1 THEN weaker - 1 ELSE 1)
            /\ Newest.maxSummons >= 1
            /\ Newest.maxSummons <= (IF weaker >= 2 THEN weaker - 1 ELSE 1)
            /\ Newest.summonsRemaining = Newest.maxSummons
            /\ Newest.summonCooldownEnd = Null

(* The second parent was the weaker one, with a single use left: the      *)
(* offspring got the floor of 1                                           *)
C15_Witness ==
    /\ call.called
    /\ SummonedP.summonsRemaining > SummonedQ.summonsRemaining
    /\ SummonedQ.summonsRemaining = 1
    /\ Newest.maxSummons = 1
    /\ Newest.summonsRemaining = 1

(* C16: every bred profile agrees with its own genome: class, subclass   *)
(* and profession are the dominant values of the class, subclass and      *)
(* profession slots, and its growth vectors are the primary growth of its *)
(* class and the secondary growth of its subclass.                        *)
C16_ProfileMatchesGenome ==
    \A i \in Bred :
        LET o == sigils[i]
        IN  /\ o.class = o.genes.class.dominant
            /\ o.subclass = o.genes.subclass.dominant
            /\ o.profession = o.genes.profession.dominant
            /\ o.statGrowthPrimary = CLASS_DEFINITIONS[o.class].primaryGrowth
            /\ o.statGrowthSecondary = CLASS_DEFINITIONS[o.subclass].secondaryGrowth

(* An offspring whose subclass differs from its class *)
C16_Witness ==
    \E i \in Bred :
        /\ sigils[i].class # sigils[i].subclass
        /\ sigils[i].subclass = sigils[i].genes.subclass.dominant
        /\ sigils[i].statGrowthSecondary
              # CLASS_DEFINITIONS[sigils[i].class].secondaryGrowth

NoStatBelow(s, t) == \A key \in DOMAIN t : s[key] >= t[key]

(* Every stat of block s is at least n *)
StatsAtLeast(s, n) == \A key \in DOMAIN s : s[key] >= n

(* C17: every value of every stat block is at least 1 at all times: the   *)
(* base stats generated for a class are at least 1, an offspring's        *)
(* boosted stat is at least 3, applyRarityBonuses, rollStatGrowth and     *)
(* levelUp return no stat lower than they were given, and no step lowers  *)
(* a stored stat.                                                         *)
C17_StatsAtLeastOne ==
    /\ [](\A a \in Ids :
            /\ StatsAtLeast(sigils[a].stats, 1)
            /\ a \in Bred => sigils[a].stats[sigils[a].genes.statBoost.dominant] >= 3
            /\ \A rnd \in Seeds :
                  /\ StatsAtLeast(generateBaseStats(sigils[a].class, rnd, 1), 1)
                  /\ NoStatBelow(applyRarityBonuses(sigils[a].stats, sigils[a].rarity, rnd, 1),
                                 sigils[a].stats)
                  /\ NoStatBelow(rollStatGrowth(sigils[a].stats,
                                                CLASS_DEFINITIONS[sigils[a].class].primaryGrowth,
                                                CLASS_DEFINITIONS[sigils[a].subclass].secondaryGrowth,
                                                rnd, 1),
                                 sigils[a].stats)
                  /\ \A key \in Range(STAT_KEYS) \cup {""} :
                        NoStatBelow(levelUp(sigils[a], key, rnd).sigil.stats, sigils[a].stats))
    /\ [][\A a \in Ids : NoStatBelow(sigils'[a].stats, sigils[a].stats)]_vars

(* An offspring of a non-common parent exists and some profile of a       *)
(* non-common rarity has reached level 5, where the rarity bonus applies. *)
C17_Witness ==
    /\ Bred # {}
    /\ \E a \in Ids : sigils[a].level = 5 /\ sigils[a].rarity # "common"
    /\ \A a \in Ids : StatsAtLeast(sigils[a].stats, 1)

BonusCall == call.called /\ call.fn = "applyRarityBonuses"

Distinct(seq) == \A i \in DOMAIN seq, j \in DOMAIN seq : i # j => seq[i] # seq[j]

(* The amount pass p of the recorded call gives to a stat *)
PassGain(p, stat) ==
    IF stat \in Range(call.picks[p])
    THEN RARITY_DEFINITIONS[call.rarity].statBonuses[p].amount
    ELSE 0

(* C18: within one bonus pass of applyRarityBonuses the chosen stats are  *)
(* pairwise distinct; each pass raises exactly `count` stats by `amount`  *)
(* (a stat may be chosen again by another pass), and for common rarity    *)
(* the stat block is returned unchanged.                                  *)
C18_DistinctWithinPass ==
    BonusCall =>
        LET statBonuses == RARITY_DEFINITIONS[call.rarity].statBonuses
        IN  /\ DOMAIN call.picks = DOMAIN statBonuses
            /\ \A p \in DOMAIN statBonuses :
                  /\ Distinct(call.picks[p])
                  /\ Len(call.picks[p]) = statBonuses[p].count
            /\ \A stat \in DOMAIN call.stats :
                  call.result[stat]
                    = call.stats[stat]
                        + SumSeq([p \in DOMAIN statBonuses |-> PassGain(p, stat)])
            /\ call.rarity = "common" => call.result = call.stats

(* A call with three passes in which one stat is chosen by two of them *)
C18_Witness ==
    /\ BonusCall
    /\ Len(call.picks) = 3
    /\ \E p \in DOMAIN call.picks, q \in DOMAIN call.picks :
          p # q /\ Range(call.picks[p]) \cap Range(call.picks[q]) # {}
    /\ \A p \in DOMAIN call.picks : Distinct(call.picks[p])

(* C19: a bonus pass flagged "random" never picks a stat already picked   *)
(* by an earlier pass of the same call (for rarity rare, the fourth bonus *)
(* goes to a stat different from the three of the first pass).            *)
C19_RandomPassAvoidsEarlier ==
    BonusCall =>
        LET statBonuses == RARITY_DEFINITIONS[call.rarity].statBonuses
        IN  \A p \in DOMAIN statBonuses :
                statBonuses[p].random =>
                    \A q \in 1..(p - 1) :
                        Range(call.picks[p]) \cap Range(call.picks[q]) = {}

SelectCall == call.called /\ call.fn = "selectGene"

(* Sixteen equally spaced roll values *)
SixteenthRolls == {j * (RollScale \div 16) : j \in 0..15}

(* C21: layer selection uses fixed weights that sum to exactly 1 and      *)
(* partition the roll: dominant for rolls in [0, 0.75), recessive for     *)
(* [0.75, 0.9375), hidden for [0.9375, 1), in the ratio 12 : 3 : 1; every *)
(* roll selects exactly one layer.                                        *)
C21_LayerWeights ==
    SelectCall =>
        LET layers == call.layers
            roll == call.roll
            picked(layer) == {r \in SixteenthRolls : selectGene(layers, r) = layers[layer]}
        IN  /\ DOMINANT_CHANCE + RECESSIVE_CHANCE + HIDDEN_CHANCE = RollScale
            /\ roll * 16 < 12 * RollScale => call.result = layers.dominant
            /\ (roll * 16 >= 12 * RollScale /\ roll * 16 < 15 * RollScale)
                  => call.result = layers.recessive
            /\ roll * 16 >= 15 * RollScale => call.result = layers.hidden
            /\ call.result \in {layers.dominant, layers.recessive, layers.hidden}
            /\ Cardinality({layers.dominant, layers.recessive, layers.hidden}) = 3
                  => /\ Cardinality(picked("dominant")) = 12
                     /\ Cardinality(picked("recessive")) = 3
                     /\ Cardinality(picked("hidden")) = 1

(* A roll of exactly 0.9375 on three different layer values gives the     *)
(* hidden one.                                                            *)
C21_Witness ==
    /\ SelectCall
    /\ call.roll * 16 = 15 * RollScale
    /\ Cardinality({call.layers.dominant, call.layers.recessive, call.layers.hidden}) = 3
    /\ call.result = call.layers.hidden

RarityCall == call.called /\ call.fn = "rollOffspringRarity"

(* A thousand equally spaced, equally likely roll values *)
ThousandthRolls == {j * (RollScale \div 1000) : j \in 0..999}

(* How many of the thousand rolls give tier t to the offspring of p1, p2 *)
TierCount(p1Rarity, p2Rarity, t) ==
    Cardinality({r \in ThousandthRolls : rollOffspringRarity(p1Rarity, p2Rarity, r) = t})

TierOf(rarity) == IndexOf(RARITY_TIERS, rarity)

(* C22: with two common parents, the offspring rarity roll yields each    *)
(* tier with exactly the registry's base probability for that tier        *)
(* (common 0.75, uncommon 0.20, rare 0.04, legendary 0.009, mythic 0.001),*)
(* as the fraction of equally likely rolls mapped to the tier.            *)
C22_BaseProbabilities ==
    (RarityCall /\ call.p1Rarity = "common" /\ call.p2Rarity = "common") =>
        \A t \in Range(RARITY_TIERS) :
            TierCount("common", "common", t) = RARITY_DEFINITIONS[t].chance

(* C23: a higher average parent tier never lowers the chance of reaching  *)
(* a tier above common (for the same roll the offspring's tier is never   *)
(* lower), two mythic parents give a mythic offspring strictly more often *)
(* than two common parents, and for every pair of parent rarities each of *)
(* the five tiers remains a possible result.                              *)
C23_ParentTierHelps ==
    RarityCall =>
        /\ \A q1 \in Range(RARITY_TIERS), q2 \in Range(RARITY_TIERS) :
              TierOf(q1) + TierOf(q2) >= TierOf(call.p1Rarity) + TierOf(call.p2Rarity)
                => TierOf(rollOffspringRarity(q1, q2, call.roll)) >= TierOf(call.result)
        /\ (call.p1Rarity = "mythic" /\ call.p2Rarity = "mythic")
              => TierCount("mythic", "mythic", "mythic") > TierCount("common", "common", "mythic")
        /\ \A t \in Range(RARITY_TIERS) :
              \E r \in ThousandthRolls :
                  rollOffspringRarity(call.p1Rarity, call.p2Rarity, r) = t

(* Two mythic parents get a mythic offspring on a roll that gives two     *)
(* common parents a legendary one.                                        *)
C23_Witness ==
    /\ RarityCall
    /\ call.p1Rarity = "mythic"
    /\ call.p2Rarity = "mythic"
    /\ call.result = "mythic"
    /\ rollOffspringRarity("common", "common", call.roll) = "legendary"

FaultCall == call.called /\ call.fn = "executeSummon" /\ "fault" \in DOMAIN call

(* C24: an invariant violation in the inputs of executeSummon (a parent   *)
(* rarity outside the five tiers, a gene value that is no registry        *)
(* archetype, a genome missing a slot) makes the call fail fatally; it    *)
(* never returns an offspring.                                            *)
C24_ViolationIsFatal ==
    (FaultCall /\ call.fault # "none") => call.threw

(* The hours between now and the expiry a step has just set on profile a *)
AppliedHours(a) == (Expiry(sigils'[a]) - now) \div MsPerHour

(* C25: for an eligible pair, the cooldown hours checkSummonEligibility   *)
(* quotes for a parent equal the hours applySummonToParent then applies   *)
(* to that parent, nothing else having changed the parent in between.     *)
C25_QuoteMatchesApplied ==
    [][/\ (req[Caller].pc = "executed" /\ req'[Caller].pc = "applied1")
            => AppliedHours(req[Caller].p1) = req[Caller].quote.result.cooldownHoursP1
       /\ (req[Caller].pc = "applied1" /\ req'[Caller].pc = "done")
            => AppliedHours(req[Caller].p2) = req[Caller].quote.result.cooldownHoursP2]_vars

(* The number of summon records that name profile a as a parent *)
TimesParent(a) ==
    Cardinality({j \in 1..Len(records) :
                    records[j].parent1Id = a \/ records[j].parent2Id = a})

(* The summons profile a had used before the run began *)
UsedBefore(a) == IF a \in DOMAIN rootUsed THEN rootUsed[a] ELSE 0

(* C26: when every summon follows an eligibility check that answered      *)
(* eligible and is followed by the side effects on both parents, each     *)
(* profile is a parent in at most maxSummons summons over its lifetime,   *)
(* and a profile whose summonsRemaining has reached 0 is never again part *)
(* of an eligible pair.                                                   *)
C26_BudgetBoundsLifetime ==
    /\ [](\A a \in Ids :
            /\ UsedBefore(a) + TimesParent(a) <= sigils[a].maxSummons
            /\ sigils[a].summonsRemaining = 0
                  => \A b \in Ids : ~Quote(a, b).eligible /\ ~Quote(b, a).eligible)
    /\ [][\A a \in Ids :
            sigils[a].summonsRemaining = 0 => sigils'[a].summonsRemaining = 0]_vars

(* A profile has used up its last summon in a summon this run carried out *)
(* and time has passed beyond its cooldown.                               *)
C26_Witness ==
    \E a \in Ids :
        /\ sigils[a].summonsRemaining = 0
        /\ TimesParent(a) >= 1
        /\ UsedBefore(a) + TimesParent(a) = sigils[a].maxSummons
        /\ req[Caller].pc = "idle"
        /\ Expiry(sigils[a]) <= now

(* C27: when levelUp is called only after canLevelUp answered ok, each    *)
(* levelUp raises the level by exactly 1 and lowers xp by the previous    *)
(* xpToNextLevel, the level never exceeds MAX_LEVEL, and xp never becomes *)
(* negative, whatever quest results are applied in between.               *)
C27_LevelAndXp ==
    /\ [](\A a \in Ids : sigils[a].level <= 100 /\ sigils[a].xp >= 0)
    /\ [][\A a \in Ids :
            /\ sigils'[a].level \in {sigils[a].level, sigils[a].level + 1}
            /\ sigils'[a].level # sigils[a].level
                  => /\ sigils'[a].xp = sigils[a].xp - sigils[a].xpToNextLevel
                     /\ sigils[a].xp >= sigils[a].xpToNextLevel
                     /\ sigils'[a].xpToNextLevel = xpForLevel(sigils'[a].level)
            /\ sigils'[a].level = sigils[a].level
                  => sigils'[a].xp >= sigils[a].xp]_vars

(* A profile levelled up to MAX_LEVEL holds enough experience for         *)
(* another level and is refused.                                          *)
C27_Witness ==
    \E a \in Ids :
        /\ call.called
        /\ sigils[a].level = MAX_LEVEL
        /\ sigils[a].xp >= sigils[a].xpToNextLevel
        /\ ~canLevelUp(sigils[a]).ok

(* C28: in one paidFetch call a SOL transfer is made at most once, and    *)
(* only after an initial response with status 402 whose payment           *)
(* requirements name "solana" as the network of the first accepted        *)
(* option; the request is sent at most twice, the second time only after  *)
(* the transfer completed and with the payment proof; a non-402 initial   *)
(* response never triggers a payment; a failure is returned as            *)
(* success = false, never thrown.                                         *)
C28_PayOnceThenRetry ==
    FetchCall =>
        /\ Len(call.transfers) <= 1
        /\ Len(call.transfers) = 1
              => /\ call.initial.status = 402
                 /\ call.initial.header.kind = "requirements"
                 /\ Len(call.initial.header.accepts) > 0
                 /\ call.initial.header.accepts[1].network = "solana"
                 /\ call.transfers[1].to = call.initial.header.accepts[1].payToAddress
        /\ Len(call.sent) \in {1, 2}
        /\ call.sent[1] = NoProof
        /\ Len(call.sent) = 2
              => /\ Len(call.transfers) = 1
                 /\ call.pc \in {"paid", "paidBody", "done"}
                 /\ call.sent[2].network = "solana"
                 /\ call.sent[2].signature # ""
        /\ (call.initial.status # 402 /\ call.initial # NoResponse)
              => Len(call.transfers) = 0 /\ Len(call.sent) = 1
        /\ ~call.result.thrown
        /\ call.pc = "done" <=> call.result.returned
        /\ (call.result.returned /\ call.result.error # "") => ~call.result.success

(* The call paid, sent the request again with the proof and returned the  *)
(* paid response as a success.                                            *)
C28_Witness ==
    /\ FetchCall
    /\ call.pc = "done"
    /\ Len(call.transfers) = 1
    /\ Len(call.sent) = 2
    /\ call.sent[2].signature = "sig1"
    /\ call.result.success

=============================================================================
